---- MODULE Spec2Model ----
(***************************************************************************)
(* Model of nix-deploy's fleet update engine: one pipeline per selected    *)
(* host token (update_server_blocking), the bounded progress channel the   *)
(* pipelines try_send into, the aggregator task (progress_monitor_task)    *)
(* that applies the events to the progress table, and the coordinator      *)
(* that joins the tasks and builds the result list (main).                 *)
(*                                                                         *)
(* Rust Strings are TLA+ strings; Option<T> is <<>> (None) or <<v>>        *)
(* (Some(v)).                                                              *)
(***************************************************************************)
EXTENDS Integers, Sequences, FiniteSets, TLC

(***************************************************************************)
(* Bounds of the model.                                                    *)
(***************************************************************************)
\* largest exit status a remote command returns in the model
MaxExit == 1
\* most words of a line given to parse_rebuild_progress
MaxWords == 2
\* most progress lines one streamed command produces
MaxLines == 1
\* most identities the credential agent lists
MaxIdentities == 1
\* capacity of the bounded progress channel
ChanCap == 2
\* most characters a streamed command prints
MaxContent == 4

(***************************************************************************)
(* String helpers (str::split, str::starts_with, str::contains).           *)
(***************************************************************************)
None == << >>
Some(v) == << v >>
IsSome(o) == o # << >>
Unwrap(o) == o[1]

\* position of the first occurrence of the one-character string c in s at
\* or after position i, 0 when there is none
RECURSIVE FindFrom(_, _, _)
FindFrom(s, c, i) ==
    IF i > Len(s) THEN 0
    ELSE IF SubSeq(s, i, i) = c THEN i
    ELSE FindFrom(s, c, i + 1)

\* s.split(c).collect::<Vec<&str>>()
RECURSIVE Split(_, _)
Split(s, c) ==
    LET p == FindFrom(s, c, 1)
    IN IF p = 0 THEN << s >>
       ELSE << SubSeq(s, 1, p - 1) >> \o Split(SubSeq(s, p + 1, Len(s)), c)

\* s.starts_with(prefix)
StartsWith(s, prefix) ==
    /\ Len(s) >= Len(prefix)
    /\ SubSeq(s, 1, Len(prefix)) = prefix

\* s.contains(sub)
Contains(s, sub) ==
    \E i \in 1..(Len(s) - Len(sub) + 1) : SubSeq(s, i, i + Len(sub) - 1) = sub

(***************************************************************************)
(* Inputs of a fleet run.  Host tokens come from get_nixos_servers as      *)
(* "<HostName>:<first address>" of peers whose HostName starts with "nix", *)
(* sorted by host name; two peers may carry the same HostName.  A token    *)
(* without ':' is what update_server_blocking rejects first.               *)
(***************************************************************************)
Selections ==
    { << "nixa:10.0.0.1" >>,
      << "nixa:10.0.0.1", "nixb:10.0.0.2" >>,
      << "nixa:10.0.0.1", "nixa:10.0.0.3" >>,
      << "nixa:10.0.0.1", "web" >> }

\* the auxiliary command of --command
AuxCommand == "systemctl stop myapp"

\* (command, run_after): --after requires --command
AuxOptions ==
    { << None, FALSE >>, << Some(AuxCommand), FALSE >>, << Some(AuxCommand), TRUE >> }

VARIABLES
    selected_servers,   \* main: the host tokens of the run
    command,            \* Option<String>: args.command
    run_after,          \* args.after
    use_boot,           \* args.boot
    pc,                 \* per task: where its pipeline stands
    output,             \* per task: update_server_blocking's `output`
    success,            \* per task: update_server_blocking's `success`
    chan,               \* the bounded progress channel (FIFO)
    progress_map,       \* hostname -> ServerProgress
    task_out,           \* per task: what its JoinHandle yields, None while running
    results,            \* main's `results`, None until join_all returned
    emitted,            \* per task: the phases its pipeline has sent, in order
    sent,               \* per task: every event it passed to try_send, in order
    queued,             \* for each event in chan: its task and its place in sent
    applied,            \* per task: its events the aggregator applied, in order
    produced,           \* per task: how many values its task has yielded
    returned,           \* per task: what its pipeline returned, Ok or Err
    completed,          \* history: the tasks in the order in which they completed,
                        \* << 0 >> in the runs that do not keep the order
    executed,           \* per task: the remote commands started, in order
    running,            \* per task: the started commands whose exit status is awaited
    finished,           \* per task: the commands ended, with output and exit status
    key_files,          \* which of the conventional key files exist under $HOME/.ssh
    reachable,          \* per task: whether a TCP connection to its address succeeds
    agent,              \* Option<number of identities>: the operator's credential agent
    key_idx,            \* per task: authenticate_ssh_session's position in key_paths
    attempts,           \* per task: the userauth calls made for it, in order
    auth_errors,        \* per task: authenticate_ssh_session's `auth_errors`
    authenticated,      \* per task: authenticate_ssh_session's `authenticated`
    sess_authenticated, \* per task: what sess.authenticated() answers
    identities,         \* per task: the identities the agent listed
    ident_idx,          \* per task: position in the identity loop
    lines_read,         \* per task: lines the running streamed command has produced
    stream_output,      \* per task: execute_command_streaming's `full_output`
    unread,             \* per task: what the remote command has still to deliver
    line_buffer,        \* per task: execute_command_streaming's `line_buffer`
    lock,               \* who holds the mutex of the progress map: "free", "monitor", "tui"
    mon_pc,             \* where progress_monitor_task stands
    mon_update,         \* the event progress_monitor_task received, None between events
    tx_alive,           \* whether the sender the tasks' senders were cloned from still exists
    tui_pc,             \* where the terminal interface stands
    all_complete,       \* ProgressTui.all_complete
    ctrl_c_count,       \* ProgressTui.ctrl_c_count
    quit,               \* whether handle_input has returned Ok(true)
    last_input          \* history: whether the last key press or handled mouse event
                        \* was "Ctrl-C" or "other", "" before any

inputVars == << selected_servers, command, run_after, use_boot, key_files, reachable, agent >>
authVars == << key_idx, auth_errors, authenticated, sess_authenticated,
               identities, ident_idx, attempts >>
uiVars == << lock, mon_pc, mon_update, tx_alive, tui_pc, all_complete, ctrl_c_count, quit,
            last_input >>
cmdVars == << executed, running, finished, lines_read, stream_output,
             unread, line_buffer >>
vars == << inputVars, pc, output, success, chan, queued, progress_map, applied, task_out, results,
           emitted, sent, produced, returned, completed, cmdVars, authVars, uiVars >>

Tasks == 1..Len(selected_servers)

(***************************************************************************)
(* UpdatePhase, ProgressUpdate, ServerProgress (progress.rs).              *)
(***************************************************************************)
Pending == [name |-> "Pending"]
Connecting == [name |-> "Connecting"]
RunningBeforeCommand == [name |-> "RunningBeforeCommand"]
CheckingGit == [name |-> "CheckingGit"]
PullingGit == [name |-> "PullingGit"]
Rebuilding(progress) == [name |-> "Rebuilding", progress |-> progress]
RunningAfterCommand == [name |-> "RunningAfterCommand"]
Success == [name |-> "Success"]
Failed(reason) == [name |-> "Failed", reason |-> reason]

\* UpdatePhase::is_terminal
is_terminal(phase) == phase.name \in {"Success", "Failed"}

ProgressUpdate(hostname, phase, output_line) ==
    [hostname |-> hostname, phase |-> phase, output_line |-> output_line]

NewServerProgress_Connecting == [phase |-> Connecting, full_output |-> ""]

\* ServerProgress::new
NewServerProgress == [phase |-> Pending, full_output |-> ""]

\* the key of a host token in the progress table:
\* server.split(':').next().unwrap_or(server)
KeyOf(server) == Split(server, ":")[1]

\* create_progress_map
create_progress_map(servers) ==
    [h \in {KeyOf(servers[k]) : k \in 1..Len(servers)} |-> NewServerProgress]

(***************************************************************************)
(* The host token of a task, as update_server_blocking reads it.           *)
(***************************************************************************)
Tokens == UNION { { sel[k] : k \in 1..Len(sel) } : sel \in Selections }
Parts == [t \in Tokens |-> Split(t, ":")]
parts_Padded(i) == Parts[selected_servers[i]] \o << "" >>
\* let parts: Vec<&str> = server_info.split(':').collect()
parts(i) == Parts[selected_servers[i]]
hostname(i) == parts(i)[1]
ip(i) == parts(i)[2]
flake_hostname(i) ==
    IF StartsWith(hostname(i), "nix")
    THEN SubSeq(hostname(i), 4, Len(hostname(i)))
    ELSE hostname(i)

\* the fixed remote commands
GitCheckCmd == "test -d /etc/nixos/.git || echo 'No git repo found'"
GitPullCmd == "cd /etc/nixos && git pull --verbose"
rebuild_mode == IF use_boot THEN "boot" ELSE "switch"
rebuild_cmd(i) ==
    "nixos-rebuild " \o rebuild_mode \o " --flake \"/etc/nixos#" \o flake_hostname(i)
        \o "\" --no-write-lock-file"

(***************************************************************************)
(* parse_rebuild_progress (progress.rs).                                   *)
(***************************************************************************)
UpperCase == "ABCDEFGHIJKLMNOPQRSTUVWXYZ"
LowerCase == "abcdefghijklmnopqrstuvwxyz"
Digits == "0123456789"

\* char::to_lowercase of a one-character string
LowerChar(c) ==
    LET p == FindFrom(UpperCase, c, 1)
    IN IF p = 0 THEN c ELSE SubSeq(LowerCase, p, p)

\* the characters of s from position i on, each in lower case
RECURSIVE LowerFrom(_, _)
LowerFrom(s, i) ==
    IF i > Len(s) THEN ""
    ELSE LowerChar(SubSeq(s, i, i)) \o LowerFrom(s, i + 1)

\* str::to_lowercase
to_lowercase(s) == LowerFrom(s, 1)

is_numeric(c) == FindFrom(Digits, c, 1) # 0

\* position of the first numeric character of s at or after i, 0 when none
RECURSIVE FindNumeric(_, _)
FindNumeric(s, i) ==
    IF i > Len(s) THEN 0
    ELSE IF is_numeric(SubSeq(s, i, i)) THEN i
    ELSE FindNumeric(s, i + 1)

\* s[i..].chars().take_while(|c| c.is_numeric()).collect()
RECURSIVE TakeNumeric(_, _)
TakeNumeric(s, i) ==
    IF i > Len(s) \/ ~is_numeric(SubSeq(s, i, i)) THEN ""
    ELSE SubSeq(s, i, i) \o TakeNumeric(s, i + 1)

parse_rebuild_progress(line) ==
    LET line_lower == to_lowercase(line)
        start == FindFrom(line, "'", 1)
        end == IF start = 0 THEN 0 ELSE FindFrom(line, "'", start + 1)
        pkg == SubSeq(line, start + 1, end - 1)
        pos == FindNumeric(line, 1)
        num_str == TakeNumeric(line, pos)
    IN IF Contains(line_lower, "downloading") \/ Contains(line_lower, "download")
       THEN IF start # 0 /\ end # 0
            THEN IF Len(pkg) > 30
                 THEN Some("dl: " \o SubSeq(pkg, 1, 27) \o "...")
                 ELSE Some("dl: " \o pkg)
            ELSE Some("downloading...")
       ELSE IF Contains(line_lower, "copying path") \/ Contains(line_lower, "copying")
       THEN Some("copying paths...")
       ELSE IF Contains(line_lower, "building")
       THEN IF Contains(line, "derivation") /\ pos # 0 /\ num_str # ""
            THEN Some("building " \o num_str \o " drv")
            ELSE Some("building...")
       ELSE IF Contains(line_lower, "activating") \/ Contains(line_lower, "activation")
       THEN Some("activating...")
       ELSE IF Contains(line_lower, "updating") /\ Contains(line_lower, "bootloader")
       THEN Some("updating bootloader...")
       ELSE IF Contains(line_lower, "reloading")
       THEN Some("reloading services...")
       ELSE None

(***************************************************************************)
(* What the environment may answer.                                        *)
(***************************************************************************)
\* $HOME of the operator
home == "/home/op"
key_paths_Reversed ==
    << home \o "/.ssh/id_dsa", home \o "/.ssh/id_ecdsa",
       home \o "/.ssh/id_rsa", home \o "/.ssh/id_ed25519" >>

\* authenticate_ssh_session's key_paths
key_paths ==
    << home \o "/.ssh/id_ed25519", home \o "/.ssh/id_rsa",
       home \o "/.ssh/id_ecdsa", home \o "/.ssh/id_dsa" >>

\* outcomes of one userauth call: Ok(()) with the session authenticated,
\* Ok(()) with the session not authenticated, Err(e)
AuthOutcomes == {"ok_auth", "ok_unauth", "err"}
AuthError == "authentication failed"
\* stands for the check mark U+2713 and the blank after it
CheckMark == "[v] "

\* comment of the k-th identity of the agent
AgentComment(k) == "op@key" \o ToString(k)

\* exit statuses of a remote command
ExitStatuses == 0..MaxExit
\* what the auxiliary command prints
AuxOutputs == {"stopped\n"}
\* what the repository presence check prints
GitCheckOutputs == {"", "No git repo found\n"}
\* lines of the streamed commands (without their newline)
GitLines == {"Already up to date."}
RebuildLines == {"building the system configuration..."}

(***************************************************************************)
(* Initial state: main after run_tui returned a non-empty selection and    *)
(* the tasks are spawned.                                                  *)
(***************************************************************************)
EmptyChannel ==
    /\ chan = << >>
    /\ sent = [i \in Tasks |-> << >>]
    /\ queued = << >>

Spawned ==
    /\ pc = [i \in Tasks |-> "spawned"]
    /\ output = [i \in Tasks |-> ""]
    /\ success = [i \in Tasks |-> TRUE]
    /\ progress_map = create_progress_map(selected_servers)
    /\ task_out = [i \in Tasks |-> None]
    /\ results = None
    /\ emitted = [i \in Tasks |-> << >>]
    /\ attempts = [i \in Tasks |-> << >>]
    /\ applied = [i \in Tasks |-> << >>]
    /\ executed = [i \in Tasks |-> << >>]
    /\ running = [i \in Tasks |-> << >>]
    /\ finished = [i \in Tasks |-> << >>]
    /\ produced = [i \in Tasks |-> 0]
    /\ returned = [i \in Tasks |-> None]
    /\ key_idx = [i \in Tasks |-> 0]
    /\ auth_errors = [i \in Tasks |-> << >>]
    /\ authenticated = [i \in Tasks |-> FALSE]
    /\ sess_authenticated = [i \in Tasks |-> FALSE]
    /\ identities = [i \in Tasks |-> << >>]
    /\ ident_idx = [i \in Tasks |-> 0]
    /\ lines_read = [i \in Tasks |-> 0]
    /\ stream_output = [i \in Tasks |-> ""]
    /\ line_buffer = [i \in Tasks |-> ""]
    /\ lock = "free"
    /\ mon_pc = "recv"
    /\ mon_update = None
    /\ tx_alive = TRUE
    /\ tui_pc = "idle"
    /\ all_complete = FALSE
    /\ ctrl_c_count = 0
    /\ quit = FALSE
    /\ last_input = ""

\* the state in which the tasks are spawned: nothing sent yet
\* no command has anything to deliver yet
NothingToRead == unread = [i \in Tasks |-> ""]

\* the order in which the tasks complete is not kept
OrderNotKept == completed = << 0 >>

\* the order in which the tasks complete is kept; no task has completed
OrderKept == completed = << >>

Started == Spawned /\ EmptyChannel /\ NothingToRead /\ OrderNotKept

\* the credential agent: none running, or one holding some identities
Agents == {None} \cup {Some(n) : n \in 0..MaxIdentities}

\* every fleet of the bounds, with any of its hosts reachable or not
InitPipelines ==
    /\ selected_servers \in Selections
    /\ key_files = {key_paths[2]}
    /\ reachable \in [Tasks -> BOOLEAN]
    /\ \/ /\ Len(selected_servers) = 1
          /\ \E o \in AuxOptions : command = o[1] /\ run_after = o[2]
          /\ use_boot \in BOOLEAN
          /\ agent \in Agents \ {None}
       \/ /\ Len(selected_servers) > 1
          /\ \E o \in AuxOptions : command = o[1] /\ run_after = o[2]
          /\ use_boot = FALSE
          /\ Cardinality({i \in Tasks : reachable[i]}) <= 1
          /\ agent \in Agents \ {None}
    /\ Started

\* two tokens, at most one of them reachable, the order of completion kept
InitOrder ==
    /\ selected_servers \in Selections
    /\ Len(selected_servers) > 1
    /\ key_files = {key_paths[2]}
    /\ command = None /\ run_after = FALSE
    /\ use_boot = FALSE
    /\ reachable \in [Tasks -> BOOLEAN]
    /\ Cardinality({i \in Tasks : reachable[i]}) <= 1
    /\ agent = None
    /\ Spawned /\ EmptyChannel /\ NothingToRead /\ OrderKept

\* two hosts updated side by side, both reachable
InitFleet ==
    /\ selected_servers \in Selections
    /\ Len(selected_servers) > 1
    /\ key_files = {key_paths[2]}
    /\ command = None /\ run_after = FALSE
    /\ use_boot = FALSE
    /\ reachable = [i \in Tasks |-> TRUE]
    /\ \A i \in Tasks : Len(parts(i)) = 2
    /\ agent = None
    /\ Started

\* one host whose pipeline sends more events than the channel holds, or
\* several hosts that no key file and no agent can authenticate
InitMonitor ==
    /\ selected_servers \in Selections
    /\ command = None /\ run_after = FALSE
    /\ use_boot = FALSE
    /\ reachable \in [Tasks -> BOOLEAN]
    /\ agent = None
    /\ \/ Len(selected_servers) = 1 /\ key_files = {key_paths[2]}
       \/ key_files = {}
    /\ Started

\* the runs in which fair scheduling is looked at: one host with any options,
\* or two distinct reachable hosts side by side
InitFair ==
    /\ selected_servers \in Selections
    /\ key_files = {key_paths[2]}
    /\ reachable \in [Tasks -> BOOLEAN]
    /\ \/ /\ Len(selected_servers) = 1
          /\ \E o \in AuxOptions : command = o[1] /\ run_after = o[2]
          /\ use_boot \in BOOLEAN
          /\ agent \in Agents \ {None}
       \/ /\ Len(selected_servers) > 1
          /\ command = None /\ run_after = FALSE
          /\ use_boot = FALSE
          /\ \A i \in Tasks : reachable[i] /\ Len(parts(i)) = 2
          /\ hostname(1) # hostname(2)
          /\ agent = None
    /\ Started

\* one host, with any of the conventional key files present and any agent
InitAuth ==
    /\ selected_servers = << "nixa:10.0.0.1" >>
    /\ \E present \in SUBSET (1..Len(key_paths)) :
          key_files = { key_paths[k] : k \in present }
    /\ reachable \in [Tasks -> BOOLEAN]
    /\ \E o \in AuxOptions : command = o[1] /\ run_after = o[2]
    /\ use_boot = FALSE
    /\ agent \in Agents
    /\ Started

\* events for progress_monitor_task: of hosts of the fleet and of a host that
\* has no entry, with an output line and without
Updates ==
    { ProgressUpdate(h, phase, line) :
        h \in { "nixa", "nixb", "nixz" },
        phase \in { Connecting, Success, Failed("SSH authentication failed") },
        line \in { None, Some("Already up to date.") } }
Channels == UNION { [1..n -> Updates] : n \in 0..ChanCap }

\* the aggregator before a channel that holds any events
InitApply ==
    /\ selected_servers \in Selections
    /\ command = None /\ run_after = FALSE /\ use_boot = FALSE
    /\ key_files = {key_paths[2]}
    /\ reachable = [i \in Tasks |-> TRUE]
    /\ agent = None
    /\ Spawned
    /\ NothingToRead
    /\ OrderNotKept
    /\ chan \in Channels
    /\ sent = [i \in Tasks |-> IF i = 1 THEN chan ELSE << >>]
    /\ queued = [q \in 1..Len(chan) |-> [task |-> 1, k |-> q]]

InitSingle ==
    /\ Len(selected_servers) = 1
    /\ \E o \in AuxOptions : command = o[1] /\ run_after = o[2]
    /\ key_files = {}
    /\ reachable \in [Tasks -> BOOLEAN]
    /\ agent = Some(MaxIdentities)

InitSeveral ==
    /\ Len(selected_servers) > 1
    /\ command = None /\ run_after = FALSE
    /\ key_files = {key_paths[2]}
    /\ reachable \in [Tasks -> BOOLEAN]
    /\ \A i \in Tasks : reachable[i] => i = 1
    /\ agent = None

Init ==
    /\ selected_servers \in Selections
    /\ use_boot = FALSE
    /\ InitSingle \/ InitSeveral
    /\ Started

(***************************************************************************)
(* Building blocks of the pipeline actions.                                *)
(***************************************************************************)
try_send_Blocking(update) ==
    Len(chan) < ChanCap /\ chan' = Append(chan, update)

\* progress_tx.try_send(update): enqueue if there is room, else drop
try_send(update) ==
    chan' = IF Len(chan) < ChanCap THEN Append(chan, update) ELSE chan

\* The phases a pipeline has sent: a phase sent again (a further line of the
\* same step) takes the place of the one before it, a new phase is appended.
Sent(phases, phase) ==
    IF phases # << >> /\ phases[Len(phases)].name = phase.name /\ ~is_terminal(phase)
    THEN [phases EXCEPT ![Len(phases)] = phase]
    ELSE Append(phases, phase)

\* let _ = progress_tx.try_send(ProgressUpdate { hostname, phase, output_line })
Emit(i, phase, output_line) ==
    /\ try_send(ProgressUpdate(hostname(i), phase, output_line))
    /\ emitted' = [emitted EXCEPT ![i] = Sent(@, phase)]
    /\ sent' = [sent EXCEPT ![i] = Append(@, ProgressUpdate(hostname(i), phase, output_line))]
    /\ queued' = IF Len(chan') > Len(chan)
                 THEN Append(queued, [task |-> i, k |-> Len(sent[i]) + 1])
                 ELSE queued

NoEmit == UNCHANGED << chan, emitted, sent, queued >>

\* task i completes: it joins the order where the order is kept
Completes(order, i) ==
    IF order = << 0 >> THEN order ELSE Append(order, i)

\* Result<T>
Ok(v) == << "Ok", v >>
Err(e) == << "Err", e >>
IsOk(r) == r[1] = "Ok"

\* (String, bool, String)
Tuple(h, s, o) == [hostname |-> h, success |-> s, output |-> o]

TaskValue_Hidden(i, r) ==
    IF IsOk(r) THEN r[2] ELSE Tuple(selected_servers[i], TRUE, "")

\* the spawned task's value for what the pipeline returned (main.rs 388-391)
TaskValue(i, r) ==
    IF IsOk(r) THEN r[2] ELSE Tuple(selected_servers[i], FALSE, "Error: " \o r[2])

\* the pipeline of task i returns r; its task completes with the mapped value
Return(i, r) ==
    /\ pc' = [pc EXCEPT ![i] = "returned"]
    /\ task_out' = [task_out EXCEPT ![i] = Some(Ok(TaskValue(i, r)))]
    /\ produced' = [produced EXCEPT ![i] = @ + 1]
    /\ returned' = [returned EXCEPT ![i] = Some(r)]
    /\ completed' = Completes(completed, i)

Goto(i, label) ==
    /\ pc' = [pc EXCEPT ![i] = label]
    /\ UNCHANGED << task_out, produced, returned, completed >>

\* where the pipeline continues after authentication succeeded
BeforeConfigured == ~run_after /\ IsSome(command)
AfterAuthenticated == IF BeforeConfigured THEN "before" ELSE "check"

(***************************************************************************)
(* update_server_blocking: token, connection (updater.rs 186-233).         *)
(***************************************************************************)
\* split the token; reject it, or announce Connecting
P_Parse(i) ==
    /\ pc[i] = "spawned"
    /\ IF Len(parts(i)) < 2
       THEN /\ Return(i, Ok(Tuple(selected_servers[i], FALSE, "Invalid server info format")))
            /\ NoEmit
       ELSE /\ Emit(i, Connecting, Some("Connecting to " \o ip(i) \o "..."))
            /\ Goto(i, "connect")
    /\ UNCHANGED << inputVars, uiVars, output, success, progress_map, applied, results, cmdVars, authVars >>

\* resolve, connect with timeout, handshake: each failure leaves through `?`
ConnectErrors(i) ==
    IF reachable[i]
    THEN { "Unable to exchange encryption keys" }
    ELSE { "Failed to resolve address: " \o ip(i),
           "Connection timeout or failed after 60 seconds: connection refused" }

P_Connect(i) ==
    /\ pc[i] = "connect"
    /\ \/ reachable[i] /\ Goto(i, "auth")
       \/ \E e \in ConnectErrors(i) : Return(i, Err(e))
    /\ NoEmit
    /\ UNCHANGED << inputVars, uiVars, output, success, progress_map, applied, results, cmdVars, authVars >>

(***************************************************************************)
(* authenticate_ssh_session (updater.rs 34-176) and the caller's check of  *)
(* its answer (updater.rs 237-245).                                        *)
(***************************************************************************)
\* authenticate_ssh_session returns Ok(true): the pipeline goes on
AuthReturnsTrue(i) ==
    /\ Goto(i, AfterAuthenticated)
    /\ key_idx' = [key_idx EXCEPT ![i] = 0]
    /\ auth_errors' = [auth_errors EXCEPT ![i] = << >>]
    /\ authenticated' = [authenticated EXCEPT ![i] = FALSE]
    /\ identities' = [identities EXCEPT ![i] = << >>]
    /\ ident_idx' = [ident_idx EXCEPT ![i] = 0]

\* a userauth call was made with this credential and this outcome
Attempt(i, strategy, id, r) ==
    attempts' = [attempts EXCEPT ![i] =
                    Append(@, [strategy |-> strategy, id |-> id, ok |-> (r = "ok_auth")])]

A_Start(i) ==
    /\ pc[i] = "auth"
    /\ Emit(i, Connecting, Some("Trying file-based SSH keys..."))
    /\ key_idx' = [key_idx EXCEPT ![i] = 1]
    /\ Goto(i, "auth_key")
    /\ UNCHANGED << inputVars, uiVars, output, success, progress_map, applied, results, cmdVars,
                    auth_errors, authenticated, sess_authenticated, identities, ident_idx,
                    attempts >>

\* one iteration of `for key_path in &key_paths`
A_Key(i) ==
    LET key_path == key_paths[key_idx[i]]
        next == IF key_idx[i] = Len(key_paths) THEN "auth_agent" ELSE "auth_key"
    IN
    /\ pc[i] = "auth_key"
    /\ \E r \in IF key_path \in key_files THEN AuthOutcomes ELSE {"absent"} :
      /\ IF r = "absent" THEN UNCHANGED attempts ELSE Attempt(i, "key", key_path, r)
      /\ IF r = "ok_auth"
         THEN /\ sess_authenticated' = [sess_authenticated EXCEPT ![i] = TRUE]
              /\ Emit(i, Connecting, Some(CheckMark \o "Authenticated with key: " \o key_path))
              /\ AuthReturnsTrue(i)
         ELSE /\ auth_errors' = [auth_errors EXCEPT ![i] =
                    IF r = "err"
                    THEN Append(@, "Key " \o key_path \o ": " \o AuthError)
                    ELSE @]
              /\ key_idx' = [key_idx EXCEPT ![i] = @ + 1]
              /\ Goto(i, next)
              /\ NoEmit
              /\ UNCHANGED << authenticated, sess_authenticated, identities, ident_idx >>
    /\ UNCHANGED << inputVars, uiVars, output, success, progress_map, applied, results, cmdVars >>

A_AgentStart(i) ==
    /\ pc[i] = "auth_agent"
    /\ Emit(i, Connecting, Some("Trying SSH agent authentication..."))
    /\ Goto(i, "auth_agent_try")
    /\ UNCHANGED << inputVars, uiVars, output, success, progress_map, applied, results, cmdVars, authVars >>

\* sess.userauth_agent(username)
A_Agent(i) ==
    /\ pc[i] = "auth_agent_try"
    /\ \E r \in IF IsSome(agent) THEN AuthOutcomes ELSE {"err"} :
      /\ Attempt(i, "agent", "", r)
      /\ IF r = "ok_auth"
         THEN /\ sess_authenticated' = [sess_authenticated EXCEPT ![i] = TRUE]
              /\ Emit(i, Connecting, Some(CheckMark \o "Authenticated via SSH agent"))
              /\ AuthReturnsTrue(i)
         ELSE /\ auth_errors' = [auth_errors EXCEPT ![i] =
                    IF r = "err"
                    THEN Append(@, "SSH agent automatic: " \o AuthError)
                    ELSE @]
              /\ Goto(i, "auth_manual")
              /\ NoEmit
              /\ UNCHANGED << key_idx, authenticated, sess_authenticated,
                              identities, ident_idx >>
    /\ UNCHANGED << inputVars, uiVars, output, success, progress_map, applied, results, cmdVars >>

A_ManualStart(i) ==
    /\ pc[i] = "auth_manual"
    /\ Emit(i, Connecting, Some("Trying manual agent key iteration..."))
    /\ Goto(i, "auth_list")
    /\ UNCHANGED << inputVars, uiVars, output, success, progress_map, applied, results, cmdVars, authVars >>

\* sess.agent(), connect(), list_identities(), identities(): any of them may
\* fail, and then no identity is tried
A_List(i) ==
    /\ pc[i] = "auth_list"
    /\ \/ /\ Goto(i, "auth_end")
          /\ NoEmit
          /\ UNCHANGED << identities, ident_idx >>
       \/ /\ IsSome(agent)
          /\ identities' = [identities EXCEPT ![i] =
                [k \in 1..Unwrap(agent) |-> AgentComment(k)]]
          /\ ident_idx' = [ident_idx EXCEPT ![i] = 1]
          /\ Emit(i, Connecting,
                  Some("Found " \o ToString(Unwrap(agent)) \o " key(s) in agent"))
          /\ Goto(i, "auth_ident")
    /\ UNCHANGED << inputVars, uiVars, output, success, progress_map, applied, results, cmdVars,
                    key_idx, auth_errors, authenticated, sess_authenticated, attempts >>

\* head of `for (idx, identity) in identities.iter().enumerate()`
A_Ident(i) ==
    /\ pc[i] = "auth_ident"
    /\ IF ident_idx[i] > Len(identities[i]) \/ sess_authenticated[i]
       THEN /\ Goto(i, "auth_end")
            /\ NoEmit
       ELSE /\ Emit(i, Connecting,
                    Some("  Trying key #" \o ToString(ident_idx[i]) \o ": "
                         \o identities[i][ident_idx[i]]))
            /\ Goto(i, "auth_ident_try")
    /\ UNCHANGED << inputVars, uiVars, output, success, progress_map, applied, results, cmdVars, authVars >>

\* agent.userauth(username, identity)
A_IdentTry(i) ==
    LET comment == identities[i][ident_idx[i]]
    IN
    /\ pc[i] = "auth_ident_try"
    /\ \E r \in AuthOutcomes :
      /\ Attempt(i, "identity", comment, r)
      /\ IF r = "ok_auth"
         THEN /\ sess_authenticated' = [sess_authenticated EXCEPT ![i] = TRUE]
              /\ authenticated' = [authenticated EXCEPT ![i] = TRUE]
              /\ Emit(i, Connecting, Some(CheckMark \o "Authenticated with agent key: " \o comment))
              /\ Goto(i, "auth_end")
              /\ UNCHANGED << auth_errors, ident_idx >>
         ELSE /\ auth_errors' = [auth_errors EXCEPT ![i] =
                    IF r = "err"
                    THEN Append(@, "Agent key '" \o comment \o "': " \o AuthError)
                    ELSE @]
              /\ ident_idx' = [ident_idx EXCEPT ![i] = @ + 1]
              /\ Goto(i, "auth_ident")
              /\ NoEmit
              /\ UNCHANGED << authenticated, sess_authenticated >>
    /\ UNCHANGED << inputVars, uiVars, output, success, progress_map, applied, results, cmdVars,
                    key_idx, identities >>

\* auth_errors.join("\n")
RECURSIVE Join(_, _)
Join(strs, sep) ==
    IF strs = << >> THEN ""
    ELSE IF Len(strs) = 1 THEN strs[1]
    ELSE strs[1] \o sep \o Join(Tail(strs), sep)

\* the end of authenticate_ssh_session and the caller's `if !authenticated`
A_End_Hang(i) ==
    /\ pc[i] = "auth_end"
    /\ IF ~authenticated[i]
       THEN /\ Emit(i, Failed("SSH authentication failed"), None)
            /\ Goto(i, "hung")
            /\ UNCHANGED << key_idx, auth_errors, identities, ident_idx, authenticated >>
       ELSE /\ AuthReturnsTrue(i)
            /\ NoEmit
    /\ UNCHANGED << inputVars, uiVars, output, success, progress_map, applied, results, cmdVars,
                    sess_authenticated, attempts >>

A_End(i) ==
    /\ pc[i] = "auth_end"
    /\ IF ~authenticated[i]
       THEN /\ Emit(i, Failed("SSH authentication failed"),
                    Some("Failed to authenticate with SSH for " \o hostname(i)
                         \o ".\n\nAttempted methods:\n" \o Join(auth_errors[i], "\n")))
            /\ Return(i, Ok(Tuple(hostname(i), FALSE, "SSH authentication failed")))
            /\ key_idx' = [key_idx EXCEPT ![i] = 0]
            /\ auth_errors' = [auth_errors EXCEPT ![i] = << >>]
            /\ identities' = [identities EXCEPT ![i] = << >>]
            /\ ident_idx' = [ident_idx EXCEPT ![i] = 0]
            /\ UNCHANGED authenticated
       ELSE /\ AuthReturnsTrue(i)
            /\ NoEmit
    /\ UNCHANGED << inputVars, uiVars, output, success, progress_map, applied, results, cmdVars,
                    sess_authenticated, attempts >>

(***************************************************************************)
(* Remote commands.  execute_command_on_channel and                        *)
(* execute_command_streaming (ssh_executor.rs) open a channel, start the   *)
(* command, read its output to the end and then ask its exit status; any   *)
(* of these calls may fail, and the `?` of the caller returns the error.   *)
(***************************************************************************)
ChannelError == "channel session failed"
ReadError == "Error reading from channel: transport read"
ExitError == "channel closed without exit status"

\* channel_session()?, request_*()?, exec(command)?
StartCommand(i, step, cmd, label) ==
    \/ /\ executed' = [executed EXCEPT ![i] = Append(@, [step |-> step, cmd |-> cmd])]
       /\ running' = [running EXCEPT ![i] = Append(@, step)]
       /\ Goto(i, label)
    \/ /\ Return(i, Err(ChannelError))
       /\ UNCHANGED << executed, running >>

\* the command has ended with this output and exit status
Finished(i, step, buf, exit_status) ==
    /\ running' = [running EXCEPT ![i] = SelectSeq(@, LAMBDA x : x # step)]
    /\ finished' = [finished EXCEPT ![i] =
          Append(@, [step |-> step, buf |-> buf, exit_status |-> exit_status])]

\* reading the output or asking the exit status failed
Broken(i, step) ==
    /\ \E e \in {ReadError, ExitError} : Return(i, Err(e))
    /\ running' = [running EXCEPT ![i] = SelectSeq(@, LAMBDA x : x # step)]
    /\ UNCHANGED finished

\* the step's exit status makes the pipeline give up: `if exit_status != 0`
Failure_Negative(exit_status) == exit_status < 0
Failure(exit_status) == exit_status # 0

\* format!("{} failed with exit code: {}", ..., exit_status)
exit_message_plain(what, exit_status) == what \o " failed"
exit_message(what, exit_status) ==
    what \o " failed with exit code: " \o ToString(exit_status)

FailStep_StillSucceeds(i, transcript, error_msg) ==
    /\ UNCHANGED success
    /\ output' = [output EXCEPT ![i] = transcript \o error_msg \o "\n"]
    /\ Emit(i, Failed(error_msg), None)
    /\ Return(i, Ok(Tuple(hostname(i), success[i], transcript \o error_msg \o "\n")))

\* a failed step: push the message, send Failed, return the transcript
FailStep(i, transcript, error_msg) ==
    /\ success' = [success EXCEPT ![i] = FALSE]
    /\ output' = [output EXCEPT ![i] = transcript \o error_msg \o "\n"]
    /\ Emit(i, Failed(error_msg), None)
    /\ Return(i, Ok(Tuple(hostname(i), FALSE, transcript \o error_msg \o "\n")))

WithCommand_Fresh(transcript, cmd, buf) == "$ " \o cmd \o "\n" \o buf \o "\n"
WithCommand_NoOutput(transcript, cmd, buf) == transcript \o "$ " \o cmd \o "\n"

\* format!("$ {}\n{}\n", cmd, buf) pushed onto the transcript
WithCommand(transcript, cmd, buf) == transcript \o "$ " \o cmd \o "\n" \o buf \o "\n"

\* execute_command_on_channel of the auxiliary command returns, and the
\* caller looks at the exit status
AuxWait(i, step, what, next) ==
    \/ /\ Broken(i, step)
       /\ NoEmit
       /\ UNCHANGED << output, success >>
    \/ \E buf \in AuxOutputs, exit_status \in ExitStatuses :
         LET transcript == WithCommand(output[i], Unwrap(command), buf)
         IN /\ Finished(i, step, buf, exit_status)
            /\ IF Failure(exit_status)
               THEN FailStep(i, transcript, exit_message(what, exit_status))
               ELSE /\ output' = [output EXCEPT ![i] = transcript]
                    /\ Goto(i, next)
                    /\ NoEmit
                    /\ UNCHANGED success

(***************************************************************************)
(* Before-command (updater.rs 250-281).                                    *)
(***************************************************************************)
P_Before(i) ==
    /\ pc[i] = "before"
    /\ Emit(i, RunningBeforeCommand, Some("Running: " \o Unwrap(command)))
    /\ output' = [output EXCEPT ![i] = @ \o "=== Running before-command ===\n"]
    /\ Goto(i, "before_exec")
    /\ UNCHANGED << inputVars, uiVars, success, progress_map, applied, results, cmdVars, authVars >>

P_BeforeExec(i) ==
    /\ pc[i] = "before_exec"
    /\ StartCommand(i, "before", Unwrap(command), "before_wait")
    /\ NoEmit
    /\ UNCHANGED << inputVars, uiVars, output, success, progress_map, applied, results, finished,
                    lines_read, stream_output, unread, line_buffer, authVars >>

P_BeforeWait(i) ==
    /\ pc[i] = "before_wait"
    /\ AuxWait(i, "before", "Before-command", "check")
    /\ UNCHANGED << inputVars, uiVars, progress_map, applied, results, executed, lines_read,
                    stream_output, unread, line_buffer, authVars >>

(***************************************************************************)
(* Repository check (updater.rs 283-306).                                  *)
(***************************************************************************)
P_Check(i) ==
    /\ pc[i] = "check"
    /\ Emit(i, CheckingGit, Some("Checking for git repository..."))
    /\ Goto(i, "check_exec")
    /\ UNCHANGED << inputVars, uiVars, output, success, progress_map, applied, results, cmdVars, authVars >>

P_CheckExec(i) ==
    /\ pc[i] = "check_exec"
    /\ StartCommand(i, "check", GitCheckCmd, "check_wait")
    /\ NoEmit
    /\ UNCHANGED << inputVars, uiVars, output, success, progress_map, applied, results, finished,
                    lines_read, stream_output, unread, line_buffer, authVars >>

RepoMissing_ByStatus(git_check, exit_status) == exit_status # 0

\* what the pipeline does with the answer of the check
RepoMissing(git_check, exit_status) == Contains(git_check, "No git repo found")

\* `let (git_check, _) = ...`: the exit status is obtained and not looked at
P_CheckWait(i) ==
    /\ pc[i] = "check_wait"
    /\ \/ /\ Broken(i, "check")
          /\ NoEmit
       \/ \E git_check \in GitCheckOutputs, exit_status \in ExitStatuses :
            /\ Finished(i, "check", git_check, exit_status)
            /\ IF RepoMissing(git_check, exit_status)
               THEN /\ Emit(i, Failed("No git repository found in /etc/nixos"), None)
                    /\ Return(i, Ok(Tuple(hostname(i), FALSE,
                                          "No git repository found in /etc/nixos")))
               ELSE /\ Goto(i, "pull")
                    /\ NoEmit
    /\ UNCHANGED << inputVars, uiVars, output, success, progress_map, applied, results, executed,
                    lines_read, stream_output, unread, line_buffer, authVars >>

(***************************************************************************)
(* Streamed commands: git pull (updater.rs 308-333) and nixos-rebuild      *)
(* (updater.rs 335-373) through execute_command_streaming.                 *)
(***************************************************************************)
LinePhase_Pull(is_rebuild, trimmed) == PullingGit

\* the event execute_command_streaming sends for a non-blank trimmed line
LinePhase(is_rebuild, trimmed) ==
    IF is_rebuild
    THEN LET progress == parse_rebuild_progress(trimmed)
         IN Rebuilding(IF IsSome(progress) THEN Unwrap(progress) ELSE "")
    ELSE PullingGit

\* the events of the lines the commands print
LinePhases ==
    [is_rebuild \in BOOLEAN |->
        [line \in GitLines \cup RebuildLines |-> LinePhase(is_rebuild, line)]]

\* one line of output arrives: it joins full_output and is sent as an event
StreamLine(i, is_rebuild, line) ==
    /\ lines_read[i] < MaxLines
    /\ lines_read' = [lines_read EXCEPT ![i] = @ + 1]
    /\ stream_output' = [stream_output EXCEPT ![i] = @ \o line \o "\n"]
    /\ UNCHANGED << unread, line_buffer >>
    /\ Emit(i, LinePhases[is_rebuild][line], Some(line))
    /\ UNCHANGED << pc, task_out, produced, returned, completed, output, success, executed, running, finished >>

\* the read fails, or the exit status cannot be had
StreamError(i, step) ==
    /\ Broken(i, step)
    /\ lines_read' = [lines_read EXCEPT ![i] = 0]
    /\ stream_output' = [stream_output EXCEPT ![i] = ""]
    /\ UNCHANGED << unread, line_buffer >>
    /\ NoEmit
    /\ UNCHANGED << output, success, executed >>

\* end of stream and exit status
StreamExit(i, step, cmd, what, next) ==
    /\ lines_read' = [lines_read EXCEPT ![i] = 0]
    /\ stream_output' = [stream_output EXCEPT ![i] = ""]
    /\ UNCHANGED << unread, line_buffer >>
    /\ UNCHANGED executed
    /\ \E exit_status \in ExitStatuses :
         LET transcript == WithCommand(output[i], cmd, stream_output[i])
         IN /\ Finished(i, step, stream_output[i], exit_status)
            /\ IF Failure(exit_status)
               THEN FailStep(i, transcript, exit_message(what, exit_status))
               ELSE /\ output' = [output EXCEPT ![i] = transcript]
                    /\ Goto(i, next)
                    /\ NoEmit
                    /\ UNCHANGED success

P_Pull(i) ==
    /\ pc[i] = "pull"
    /\ Emit(i, PullingGit, Some("Running git pull..."))
    /\ Goto(i, "pull_exec")
    /\ UNCHANGED << inputVars, uiVars, output, success, progress_map, applied, results, cmdVars, authVars >>

P_PullExec(i) ==
    /\ pc[i] = "pull_exec"
    /\ StartCommand(i, "pull", GitPullCmd, "pull_read")
    /\ NoEmit
    /\ UNCHANGED << inputVars, uiVars, output, success, progress_map, applied, results, finished,
                    lines_read, stream_output, unread, line_buffer, authVars >>

P_PullRead(i) ==
    /\ pc[i] = "pull_read"
    /\ \/ \E line \in GitLines : StreamLine(i, FALSE, line)
       \/ StreamError(i, "pull")
    /\ UNCHANGED << inputVars, uiVars, progress_map, applied, results, authVars >>

P_PullExit(i) ==
    /\ pc[i] = "pull_read"
    /\ StreamExit(i, "pull", GitPullCmd, "Git pull", "rebuild")
    /\ UNCHANGED << inputVars, uiVars, progress_map, applied, results, authVars >>

P_Rebuild(i) ==
    /\ pc[i] = "rebuild"
    /\ Emit(i, Rebuilding(""), Some("Starting system rebuild..."))
    /\ Goto(i, "rebuild_exec")
    /\ UNCHANGED << inputVars, uiVars, output, success, progress_map, applied, results, cmdVars, authVars >>

P_RebuildExec(i) ==
    /\ pc[i] = "rebuild_exec"
    /\ StartCommand(i, "rebuild", rebuild_cmd(i), "rebuild_read")
    /\ NoEmit
    /\ UNCHANGED << inputVars, uiVars, output, success, progress_map, applied, results, finished,
                    lines_read, stream_output, unread, line_buffer, authVars >>

P_RebuildRead(i) ==
    /\ pc[i] = "rebuild_read"
    /\ \/ \E line \in RebuildLines : StreamLine(i, TRUE, line)
       \/ StreamError(i, "rebuild")
    /\ UNCHANGED << inputVars, uiVars, progress_map, applied, results, authVars >>

AfterConfigured_Any(i) == IsSome(command)

\* the step after a rebuild that exited zero
AfterConfigured(i) == success[i] /\ run_after /\ IsSome(command)
AfterRebuild(i) == IF AfterConfigured(i) THEN "after" ELSE "success"

P_RebuildExit(i) ==
    /\ pc[i] = "rebuild_read"
    /\ StreamExit(i, "rebuild", rebuild_cmd(i), "nixos-rebuild", AfterRebuild(i))
    /\ UNCHANGED << inputVars, uiVars, progress_map, applied, results, authVars >>

(***************************************************************************)
(* After-command (updater.rs 375-403) and Success (updater.rs 405-412).    *)
(***************************************************************************)
P_After(i) ==
    /\ pc[i] = "after"
    /\ Emit(i, RunningAfterCommand, Some("Running: " \o Unwrap(command)))
    /\ output' = [output EXCEPT ![i] = @ \o "=== Running after-command ===\n"]
    /\ Goto(i, "after_exec")
    /\ UNCHANGED << inputVars, uiVars, success, progress_map, applied, results, cmdVars, authVars >>

P_AfterExec(i) ==
    /\ pc[i] = "after_exec"
    /\ StartCommand(i, "after", Unwrap(command), "after_wait")
    /\ NoEmit
    /\ UNCHANGED << inputVars, uiVars, output, success, progress_map, applied, results, finished,
                    lines_read, stream_output, unread, line_buffer, authVars >>

P_AfterWait(i) ==
    /\ pc[i] = "after_wait"
    /\ AuxWait(i, "after", "After-command", "success")
    /\ UNCHANGED << inputVars, uiVars, progress_map, applied, results, executed, lines_read,
                    stream_output, unread, line_buffer, authVars >>

P_Success(i) ==
    /\ pc[i] = "success"
    /\ Emit(i, Success, None)
    /\ Return(i, Ok(Tuple(hostname(i), success[i], output[i])))
    /\ UNCHANGED << inputVars, uiVars, output, success, progress_map, applied, results, cmdVars, authVars >>

(***************************************************************************)
(* update_server (main.rs 195-298), the pipeline without progress events,  *)
(* from the point where userauth_agent has succeeded.  It runs every       *)
(* command through execute_command_on_channel; `outs` is what the commands *)
(* it runs return, in the order it runs them, each a record with the       *)
(* output `buf` and the `exit_status`.                                     *)
(***************************************************************************)
\* what the n-th command run returns; a command past the end of `outs`
\* prints nothing and exits with zero
Outcome(outs, n) ==
    IF n <= Len(outs) THEN outs[n] ELSE [step |-> "none", buf |-> "", exit_status |-> 0]

Executed(step, cmd) == [step |-> step, cmd |-> cmd]

\* the value of a run: the commands executed, the step it stopped at, and
\* the tuple returned
Run(ran, stop, ok, out) ==
    [executed |-> ran, stop |-> stop, result |-> Tuple("", ok, out)]

\* if success && run_after { if let Some(cmd) = command { ... } } and the
\* final Ok (main.rs 280-297)
main_after(i, outs, ran, out) ==
    IF run_after /\ IsSome(command)
    THEN LET r == Outcome(outs, Len(ran) + 1)
             o == out \o "=== Running after-command ===\n"
                      \o "$ " \o Unwrap(command) \o "\n" \o r.buf \o "\n"
             e == Append(ran, Executed("after", Unwrap(command)))
         IN IF r.exit_status # 0
            THEN Run(e, "after", FALSE,
                     o \o "After-command failed with exit code: "
                       \o ToString(r.exit_status) \o "\n")
            ELSE Run(e, "end", TRUE, o)
    ELSE Run(ran, "end", TRUE, out)

\* for cmd in [git pull, rebuild_cmd]: run, push, break on a non-zero exit
\* status (main.rs 262-278)
main_loop(i, outs, ran, out) ==
    LET p == Outcome(outs, Len(ran) + 1)
        po == out \o "$ " \o GitPullCmd \o "\n" \o p.buf \o "\n"
        pe == Append(ran, Executed("pull", GitPullCmd))
    IN IF p.exit_status # 0
       THEN Run(pe, "pull", FALSE,
                po \o "Command failed with exit code: " \o ToString(p.exit_status) \o "\n")
       ELSE LET r == Outcome(outs, Len(pe) + 1)
                ro == po \o "$ " \o rebuild_cmd(i) \o "\n" \o r.buf \o "\n"
                re == Append(pe, Executed("rebuild", rebuild_cmd(i)))
            IN IF r.exit_status # 0
               THEN Run(re, "rebuild", FALSE,
                        ro \o "Command failed with exit code: "
                           \o ToString(r.exit_status) \o "\n")
               ELSE main_after(i, outs, re, ro)

\* the repository check (main.rs 249-260)
main_check(i, outs, ran, out) ==
    LET c == Outcome(outs, Len(ran) + 1)
        e == Append(ran, Executed("check", GitCheckCmd))
    IN IF Contains(c.buf, "No git repo found")
       THEN Run(e, "check", FALSE, "No git repository found in /etc/nixos")
       ELSE main_loop(i, outs, e, out)

\* the before-command (main.rs 230-247) and what follows it
update_server(i, outs) ==
    LET run == IF ~run_after /\ IsSome(command)
               THEN LET b == Outcome(outs, 1)
                        o == "=== Running before-command ===\n"
                                 \o "$ " \o Unwrap(command) \o "\n" \o b.buf \o "\n"
                        e == << Executed("before", Unwrap(command)) >>
                    IN IF b.exit_status # 0
                       THEN Run(e, "before", FALSE,
                                o \o "Before-command failed with exit code: "
                                  \o ToString(b.exit_status) \o "\n")
                       ELSE main_check(i, outs, e, o)
               ELSE main_check(i, outs, << >>, "")
    IN [run EXCEPT !.result.hostname = hostname(i)]

(***************************************************************************)
(* execute_command_streaming (ssh_executor.rs 30-182) read by read: the    *)
(* remote output arrives in chunks of any length, each chunk joins         *)
(* full_output as it is, and the line buffer is cut into lines.            *)
(***************************************************************************)
\* stands for the byte 0x1b, which begins an escape sequence
Esc == "^"

\* the characters of the outputs the model reads
Alphabet == {"a", " ", "\r", "\n", Esc}

RECURSIVE Strings(_)
Strings(n) ==
    IF n = 0 THEN {""}
    ELSE LET S == Strings(n - 1) IN S \cup { s \o c : s \in S, c \in Alphabet }

\* what a remote command may print: every short string over the alphabet,
\* and a line nixos-rebuild prints that parse_rebuild_progress knows, with
\* one it does not know
Contents == Strings(MaxContent) \cup {"reloading\na\n"}

char_is_whitespace(c) == c \in {" ", "\r", "\n"}

RECURSIVE trim_start(_)
trim_start(s) ==
    IF s # "" /\ char_is_whitespace(SubSeq(s, 1, 1))
    THEN trim_start(SubSeq(s, 2, Len(s))) ELSE s

RECURSIVE trim_end(_)
trim_end(s) ==
    IF s # "" /\ char_is_whitespace(SubSeq(s, Len(s), Len(s)))
    THEN trim_end(SubSeq(s, 1, Len(s) - 1)) ELSE s

trim_None(s) == s

\* str::trim
trim(s) == trim_end(trim_start(s))

\* The terminal parser behind strip_ansi_escapes::strip, from byte k on:
\* a printable character outside an escape sequence is kept, a line feed is
\* kept wherever it stands, every other control character is dropped, an
\* escape sequence lasts from Esc over its intermediates (the space) to
\* its final character.
RECURSIVE StripFrom(_, _, _)
StripFrom(chunk, k, in_escape) ==
    IF k > Len(chunk) THEN ""
    ELSE LET c == SubSeq(chunk, k, k)
         IN IF c = "\n" THEN c \o StripFrom(chunk, k + 1, in_escape)
            ELSE IF c = "\r" THEN StripFrom(chunk, k + 1, in_escape)
            ELSE IF c = Esc THEN StripFrom(chunk, k + 1, TRUE)
            ELSE IF in_escape THEN StripFrom(chunk, k + 1, c = " ")
            ELSE c \o StripFrom(chunk, k + 1, FALSE)

\* strip_ansi_escapes::strip(chunk.as_bytes()): a new parser for each chunk
strip(chunk) == StripFrom(chunk, 1, FALSE)

\* ssh_executor.rs 62-70: only the rebuild's chunks are stripped
display_chunk(is_rebuild, chunk) == IF is_rebuild THEN strip(chunk) ELSE chunk

push_str_Displayed(rebuild, full_output, chunk) ==
    full_output \o display_chunk(rebuild, chunk)

\* full_output.push_str(&chunk): the chunk as it was read
push_str(rebuild, full_output, chunk) == full_output \o chunk

\* if line.ends_with('\r') { line.pop(); }
pop_cr(line) ==
    IF line # "" /\ SubSeq(line, Len(line), Len(line)) = "\r"
    THEN SubSeq(line, 1, Len(line) - 1) ELSE line

\* The loop of ssh_executor.rs 77-133 on the line buffer: the trimmed
\* non-blank lines it sends and the buffer it leaves.  A line feed anywhere
\* in the buffer is looked for first; only a buffer without one is cut
\* after a carriage return that has something behind it.
RECURSIVE process_lines(_)
process_lines(buffer) ==
    LET newline_pos == FindFrom(buffer, "\n", 1)
        cr_pos == FindFrom(buffer, "\r", 1)
    IN IF newline_pos # 0
       THEN LET trimmed == trim(pop_cr(SubSeq(buffer, 1, newline_pos - 1)))
                more == process_lines(SubSeq(buffer, newline_pos + 1, Len(buffer)))
            IN [lines |-> (IF trimmed # "" THEN << trimmed >> ELSE << >>) \o more.lines,
                rest |-> more.rest]
       ELSE IF cr_pos # 0 /\ cr_pos < Len(buffer)
       THEN process_lines(SubSeq(buffer, cr_pos + 1, Len(buffer)))
       ELSE [lines |-> << >>, rest |-> buffer]

flush_Nothing(buffer) == << >>

\* ssh_executor.rs 150-176: what is left in the buffer at the end
flush(buffer) == IF trim(buffer) # "" THEN << trim(buffer) >> ELSE << >>

\* the events of these lines, in their order
LineUpdates(i, is_rebuild, lines) ==
    [k \in 1..Len(lines) |->
        ProgressUpdate(hostname(i), LinePhase(is_rebuild, lines[k]), Some(lines[k]))]

RECURSIVE SentAll(_, _)
SentAll(phases, updates) ==
    IF updates = << >> THEN phases
    ELSE SentAll(Sent(phases, Head(updates).phase), Tail(updates))

\* try_send of each update in turn: those the channel has room for join it
EmitAll(i, updates) ==
    LET room == ChanCap - Len(chan)
        n == IF Len(updates) < room THEN Len(updates) ELSE room
    IN /\ chan' = chan \o SubSeq(updates, 1, n)
       /\ queued' = queued \o [q \in 1..n |-> [task |-> i, k |-> Len(sent[i]) + q]]
       /\ sent' = [sent EXCEPT ![i] = @ \o updates]
       /\ emitted' = [emitted EXCEPT ![i] = SentAll(@, updates)]

\* whether the command being streamed is the rebuild
is_rebuild(i) == executed[i][Len(executed[i])].step = "rebuild"

\* channel.exec(command): the command starts and will print `content`
S_Exec(i) ==
    /\ pc[i] = "spawned"
    /\ \E step \in {"pull", "rebuild"} :
         /\ executed' = [executed EXCEPT ![i] =
               Append(@, [step |-> step,
                          cmd |-> IF step = "pull" THEN GitPullCmd ELSE rebuild_cmd(i)])]
         /\ running' = [running EXCEPT ![i] = << step >>]
    /\ \E content \in Contents : unread' = [unread EXCEPT ![i] = content]
    /\ Goto(i, "stream")
    /\ NoEmit
    /\ UNCHANGED << inputVars, uiVars, output, success, progress_map, applied, results,
                    finished, lines_read, stream_output, line_buffer, authVars >>

\* channel.read(&mut buffer) returns Ok(n) with n > 0
S_Read(i) ==
    /\ pc[i] = "stream"
    /\ \E n \in 1..Len(unread[i]) :
         LET chunk == SubSeq(unread[i], 1, n)
             cut == process_lines(line_buffer[i] \o display_chunk(is_rebuild(i), chunk))
         IN /\ unread' = [unread EXCEPT ![i] = SubSeq(@, n + 1, Len(@))]
            /\ stream_output' = [stream_output EXCEPT ![i] = push_str(is_rebuild(i), @, chunk)]
            /\ line_buffer' = [line_buffer EXCEPT ![i] = cut.rest]
            /\ EmitAll(i, LineUpdates(i, is_rebuild(i), cut.lines))
    /\ UNCHANGED << inputVars, uiVars, pc, task_out, produced, returned, completed, output, success,
                    progress_map, applied, results, executed, running, finished,
                    lines_read, authVars >>

\* channel.read fails with an error other than WouldBlock: return Err
S_ReadError(i) ==
    /\ pc[i] = "stream"
    /\ Return(i, Err(ReadError))
    /\ running' = [running EXCEPT ![i] = << >>]
    /\ NoEmit
    /\ UNCHANGED << inputVars, uiVars, output, success, progress_map, applied, results,
                    executed, finished, lines_read, stream_output, unread,
                    line_buffer, authVars >>

\* Ok(0) or channel.eof(): the loop ends and the rest of the buffer is sent
S_Eof(i) ==
    /\ pc[i] = "stream"
    /\ unread[i] = ""
    /\ EmitAll(i, LineUpdates(i, is_rebuild(i), flush(line_buffer[i])))
    /\ line_buffer' = [line_buffer EXCEPT ![i] = ""]
    /\ Goto(i, "wait_close")
    /\ UNCHANGED << inputVars, uiVars, output, success, progress_map, applied, results,
                    executed, running, finished, lines_read, stream_output,
                    unread, authVars >>

\* channel.wait_close()?, channel.exit_status()?, Ok((full_output, exit_status))
S_Exit(i) ==
    /\ pc[i] = "wait_close"
    /\ \/ /\ \E exit_status \in ExitStatuses :
               Finished(i, running[i][1], stream_output[i], exit_status)
          /\ Goto(i, "streamed")
       \/ /\ Return(i, Err(ExitError))
          /\ running' = [running EXCEPT ![i] = << >>]
          /\ UNCHANGED finished
    /\ NoEmit
    /\ UNCHANGED << inputVars, uiVars, output, success, progress_map, applied, results,
                    executed, lines_read, stream_output, unread, line_buffer, authVars >>

InitParser ==
    /\ selected_servers = << "nixa:10.0.0.1" >>
    /\ command = None /\ run_after = FALSE /\ use_boot \in BOOLEAN
    /\ key_files = {} /\ agent = None
    /\ reachable = [i \in Tasks |-> TRUE]
    /\ Started

NextParser ==
    \E i \in Tasks :
        \/ S_Exec(i)
        \/ S_Read(i)
        \/ S_ReadError(i)
        \/ S_Eof(i)
        \/ S_Exit(i)

\* one streamed command, its output read in every way it can be split
SpecParser == InitParser /\ [][NextParser]_vars

(***************************************************************************)
(* parse_rebuild_progress on its own: a trimmed line of the rebuild goes   *)
(* through ssh_executor.rs 91-108 and is sent as an event.                 *)
(***************************************************************************)
\* words of the lines nixos-rebuild prints, in the cases they come in
Words ==
    {"download 'hello'", "copying", "building", "Building", "activating",
     "activation", "updating", "bootloader", "reloading",
     "3 derivations", "3 Derivations", "x"}

RECURSIVE Phrases(_)
Phrases(n) ==
    IF n = 1 THEN Words
    ELSE LET P == Phrases(n - 1) IN P \cup { q \o " " \o w : q \in P, w \in Words }

\* the lines given to parse_rebuild_progress
SampleLines == Phrases(MaxWords)

InitProgress ==
    /\ selected_servers = << "nixa:10.0.0.1" >>
    /\ command = None /\ run_after = FALSE /\ use_boot = FALSE
    /\ key_files = {} /\ agent = None
    /\ reachable = [i \in Tasks |-> TRUE]
    /\ Spawned
    /\ EmptyChannel
    /\ OrderNotKept
    /\ unread \in [Tasks -> SampleLines]

\* the line is classified and sent
R_Line(i) ==
    /\ unread[i] # ""
    /\ EmitAll(i, LineUpdates(i, TRUE, << unread[i] >>))
    /\ unread' = [unread EXCEPT ![i] = ""]
    /\ UNCHANGED << inputVars, uiVars, pc, task_out, produced, returned, completed, output,
                    success, progress_map, applied, results, executed, running,
                    finished, lines_read, stream_output, line_buffer, authVars >>

NextProgress == \E i \in Tasks : R_Line(i)

\* every sample line through parse_rebuild_progress
SpecProgress == InitProgress /\ [][NextProgress]_vars

(***************************************************************************)
(* progress_monitor_task (progress.rs 143-157): take the oldest event and  *)
(* apply it under the map lock.                                            *)
(***************************************************************************)
Apply_Insert(map, update) ==
    [h \in DOMAIN map \cup {update.hostname} |->
        IF h = update.hostname
        THEN [phase |-> update.phase,
              full_output |-> IF IsSome(update.output_line)
                              THEN Unwrap(update.output_line) \o "\n"
                              ELSE ""]
        ELSE map[h]]

\* the body of the loop: map.get_mut(&update.hostname), phase, full_output
Apply(map, update) ==
    IF update.hostname \in DOMAIN map
    THEN [map EXCEPT ![update.hostname] =
            [phase |-> update.phase,
             full_output |-> IF IsSome(update.output_line)
                             THEN @.full_output \o Unwrap(update.output_line) \o "\n"
                             ELSE @.full_output]]
    ELSE map

recv_Newest(queue) == queue[Len(queue)]

\* rx.recv().await: the oldest event of the channel
recv(queue) == Head(queue)

progress_monitor_task ==
    /\ chan # << >>
    /\ progress_map' = Apply(progress_map, recv(chan))
    /\ chan' = Tail(chan)
    /\ applied' = [applied EXCEPT ![recv(queued).task] =
                      Append(@, [k |-> recv(queued).k, update |-> recv(chan)])]
    /\ queued' = Tail(queued)
    /\ UNCHANGED << inputVars, uiVars, pc, output, success, task_out, results, emitted, sent,
                    produced, returned, completed, cmdVars, authVars >>

(***************************************************************************)
(* The coordinator (main.rs 381-403): a task that panics yields a          *)
(* JoinError; when every task has completed, join_all returns and each     *)
(* JoinError becomes the "Unknown" result.                                 *)
(***************************************************************************)
\* println! in the spawned task panics when stdout cannot be written
T_Panic(i) ==
    /\ pc[i] = "spawned"
    /\ pc' = [pc EXCEPT ![i] = "panicked"]
    /\ task_out' = [task_out EXCEPT ![i] = Some(Err("task panicked"))]
    /\ produced' = [produced EXCEPT ![i] = @ + 1]
    /\ UNCHANGED returned
    /\ completed' = Completes(completed, i)
    /\ UNCHANGED << inputVars, uiVars, output, success, chan, queued, progress_map, applied, results, emitted, sent,
                    cmdVars, authVars >>

\* r.unwrap_or_else(|e| ("Unknown", false, format!("Task error: {}", e)))
unwrap_or_else(r) ==
    IF IsOk(r) THEN r[2] ELSE Tuple("Unknown", FALSE, "Task error: " \o r[2])

collect_ok(task_results) ==
    LET oks == SelectSeq(task_results, IsOk)
    IN [k \in 1..Len(oks) |-> oks[k][2]]

collect_Reversed(task_results) ==
    [k \in 1..Len(task_results) |->
        unwrap_or_else(task_results[Len(task_results) + 1 - k])]

\* task_results.into_iter().map(...).collect::<Vec<_>>()
collect(task_results) ==
    [k \in 1..Len(task_results) |-> unwrap_or_else(task_results[k])]

\* join_all(update_tasks).await, once every task has completed: the outputs
\* in the order of the tasks
join_all ==
    /\ results = None
    /\ \A i \in Tasks : IsSome(task_out[i])
    /\ results' = Some(collect([i \in Tasks |-> Unwrap(task_out[i])]))
    /\ UNCHANGED << inputVars, uiVars, pc, output, success, chan, queued, progress_map, applied, task_out,
                    emitted, sent, produced, returned, completed, cmdVars, authVars >>

Pipeline(i) ==
    \/ P_Parse(i) \/ P_Connect(i)
    \/ A_Start(i) \/ A_Key(i) \/ A_AgentStart(i) \/ A_Agent(i) \/ A_ManualStart(i)
    \/ A_List(i) \/ A_Ident(i) \/ A_IdentTry(i) \/ A_End(i)
    \/ P_Before(i) \/ P_BeforeExec(i) \/ P_BeforeWait(i)
    \/ P_Check(i) \/ P_CheckExec(i) \/ P_CheckWait(i)
    \/ P_Pull(i) \/ P_PullExec(i) \/ P_PullRead(i) \/ P_PullExit(i)
    \/ P_Rebuild(i) \/ P_RebuildExec(i) \/ P_RebuildRead(i) \/ P_RebuildExit(i)
    \/ P_After(i) \/ P_AfterExec(i) \/ P_AfterWait(i)
    \/ P_Success(i)
    \/ T_Panic(i)

Next ==
    \/ \E i \in Tasks : Pipeline(i)
    \/ progress_monitor_task
    \/ join_all

\* the whole system: pipelines, aggregator, coordinator
Spec == Init /\ [][Next]_vars

\* The pipelines and the coordinator alone.  No pipeline action reads chan or
\* progress_map, so what the pipelines and the coordinator do is the same
\* whether or not the aggregator runs between their steps.
NextPipelines ==
    \/ \E i \in Tasks : Pipeline(i)
    \/ join_all

SpecPipelines == InitPipelines /\ [][NextPipelines]_vars

\* two pipelines and the coordinator, with the order in which the tasks
\* complete kept
SpecOrder == InitOrder /\ [][NextPipelines]_vars

\* two pipelines side by side and the coordinator
SpecFleet == InitFleet /\ [][NextPipelines]_vars

\* pipelines, aggregator and coordinator on the runs of InitMonitor
SpecMonitor == InitMonitor /\ [][Next]_vars

\* the aggregator alone, applying whatever the channel holds
SpecApply == InitApply /\ [][progress_monitor_task]_vars

\* the pipeline of one host under every set of credentials
SpecAuth == InitAuth /\ [][NextPipelines]_vars

\* The runtime keeps running spawned tasks and the coordinator: a step that
\* stays possible is taken.
FairPipelines == InitFair /\ [][NextPipelines]_vars /\ WF_vars(NextPipelines)

(***************************************************************************)
(* The progress map behind its mutex: progress_monitor_task statement by   *)
(* statement (progress.rs 143-157) beside the readers of the terminal      *)
(* interface, render (progress_tui.rs 75-96) and check_all_complete        *)
(* (186-196), and handle_input (198-307).  The loop that calls the         *)
(* interface is not part of the sources: it may call render,               *)
(* check_all_complete and handle_input in any order until handle_input     *)
(* returns Ok(true).  The selection and scrolling fields of ProgressTui    *)
(* are left out.                                                           *)
(***************************************************************************)
acquire_Unguarded(who) == lock' = who

\* progress_map.lock().unwrap(): waits until the mutex is free
acquire(who) == lock = "free" /\ lock' = who

\* every sender is gone: the tasks' clones with their pipelines, and the
\* sender they were cloned from
senders_dropped ==
    /\ ~tx_alive
    /\ \A i \in Tasks : pc[i] \in {"returned", "panicked"}

monFrame ==
    UNCHANGED << inputVars, pc, output, success, task_out, results, emitted, sent,
                 produced, returned, completed, cmdVars, authVars,
                 tx_alive, tui_pc, all_complete, ctrl_c_count, quit, last_input >>

\* rx.recv().await yields Some(update): the oldest event leaves the channel
M_Recv ==
    /\ mon_pc = "recv"
    /\ chan # << >>
    /\ mon_update' = Some([update |-> recv(chan), task |-> recv(queued).task,
                           k |-> recv(queued).k])
    /\ chan' = Tail(chan)
    /\ queued' = Tail(queued)
    /\ mon_pc' = "lock"
    /\ UNCHANGED << lock, progress_map, applied >>
    /\ monFrame

\* let mut map = progress_map.lock().unwrap()
M_Lock ==
    /\ mon_pc = "lock"
    /\ acquire("monitor")
    /\ mon_pc' = "phase"
    /\ UNCHANGED << chan, queued, progress_map, applied, mon_update >>
    /\ monFrame

\* if let Some(server) = map.get_mut(&update.hostname) { server.phase = update.phase
M_Phase ==
    /\ mon_pc = "phase"
    /\ LET got == Unwrap(mon_update)
       IN IF got.update.hostname \in DOMAIN progress_map
          THEN /\ progress_map' = [progress_map EXCEPT
                                      ![got.update.hostname].phase = got.update.phase]
               /\ mon_pc' = "line"
               /\ UNCHANGED applied
          ELSE /\ mon_pc' = "unlock"
               /\ applied' = [applied EXCEPT ![got.task] =
                                 Append(@, [k |-> got.k, update |-> got.update])]
               /\ UNCHANGED progress_map
    /\ UNCHANGED << chan, queued, lock, mon_update >>
    /\ monFrame

\* if let Some(line) = update.output_line { push_str(&line); push('\n') }
M_Line ==
    /\ mon_pc = "line"
    /\ LET got == Unwrap(mon_update)
       IN /\ progress_map' =
                IF IsSome(got.update.output_line)
                THEN [progress_map EXCEPT ![got.update.hostname].full_output =
                         @ \o Unwrap(got.update.output_line) \o "\n"]
                ELSE progress_map
          /\ applied' = [applied EXCEPT ![got.task] =
                            Append(@, [k |-> got.k, update |-> got.update])]
    /\ mon_pc' = "unlock"
    /\ UNCHANGED << chan, queued, lock, mon_update >>
    /\ monFrame

\* the guard `map` goes out of scope at the end of the loop body
M_Unlock ==
    /\ mon_pc = "unlock"
    /\ lock' = "free"
    /\ mon_update' = None
    /\ mon_pc' = "recv"
    /\ UNCHANGED << chan, queued, progress_map, applied >>
    /\ monFrame

M_Closed_Early ==
    /\ mon_pc = "recv"
    /\ chan = << >>
    /\ mon_pc' = "done"
    /\ UNCHANGED << chan, queued, lock, progress_map, applied, mon_update >>
    /\ monFrame

\* rx.recv().await yields None: the channel is empty and closed
M_Closed ==
    /\ mon_pc = "recv"
    /\ chan = << >>
    /\ senders_dropped
    /\ mon_pc' = "done"
    /\ UNCHANGED << chan, queued, lock, progress_map, applied, mon_update >>
    /\ monFrame

Monitor == M_Recv \/ M_Lock \/ M_Phase \/ M_Line \/ M_Unlock \/ M_Closed

\* the sender the tasks' senders were cloned from is dropped
DropSender ==
    /\ tx_alive
    /\ tx_alive' = FALSE
    /\ UNCHANGED << inputVars, pc, output, success, chan, queued, progress_map, applied,
                    task_out, results, emitted, sent, produced, returned, completed,
                    cmdVars, authVars, lock, mon_pc, mon_update, tui_pc, all_complete,
                    ctrl_c_count, quit, last_input >>

tuiFrame ==
    UNCHANGED << inputVars, pc, output, success, chan, queued, progress_map, applied,
                 task_out, results, emitted, sent, produced, returned, completed,
                 cmdVars, authVars, mon_pc, mon_update, tx_alive >>

\* render: let map = progress_map.lock().unwrap()
T_RenderLock ==
    /\ tui_pc = "idle" /\ ~quit
    /\ acquire("tui")
    /\ tui_pc' = "render_server_list"
    /\ UNCHANGED << all_complete, ctrl_c_count, quit, last_input >>
    /\ tuiFrame

\* self.render_server_list(frame, chunks[0], &map)
T_RenderList ==
    /\ tui_pc = "render_server_list"
    /\ tui_pc' = "render_output_pane"
    /\ UNCHANGED << lock, all_complete, ctrl_c_count, quit, last_input >>
    /\ tuiFrame

\* self.render_output_pane(frame, chunks[1], &map), and render returns
T_RenderOutput ==
    /\ tui_pc = "render_output_pane"
    /\ lock' = "free"
    /\ tui_pc' = "idle"
    /\ UNCHANGED << all_complete, ctrl_c_count, quit, last_input >>
    /\ tuiFrame

\* check_all_complete: let map = progress_map.lock().unwrap()
T_CheckLock ==
    /\ tui_pc = "idle" /\ ~quit
    /\ acquire("tui")
    /\ tui_pc' = "check_all_complete"
    /\ UNCHANGED << all_complete, ctrl_c_count, quit, last_input >>
    /\ tuiFrame

\* server_list.iter().all(|server| map.get(hostname).map(is_terminal).unwrap_or(false))
all_done(map) ==
    \A k \in 1..Len(selected_servers) :
        /\ KeyOf(selected_servers[k]) \in DOMAIN map
        /\ is_terminal(map[KeyOf(selected_servers[k])].phase)

\* self.all_complete = all_done, and check_all_complete returns
T_Check ==
    /\ tui_pc = "check_all_complete"
    /\ all_complete' = all_done(progress_map)
    /\ lock' = "free"
    /\ tui_pc' = "idle"
    /\ UNCHANGED << ctrl_c_count, quit, last_input >>
    /\ tuiFrame

\* what event::poll and event::read give handle_input: no event, a key
\* press, a key event that is no press, a mouse event, any other event
InputEvents ==
    {"none", "Up", "Down", "PageUp", "PageDown", "Ctrl-C", "q", "key",
     "release", "mouse_down", "scroll", "mouse_move", "resize"}

\* the events that set ctrl_c_count to 0
Resets == {"Up", "Down", "PageUp", "PageDown", "key", "mouse_down", "scroll"}

\* the key presses and the mouse events handle_input acts on
Handled == Resets \cup {"Ctrl-C", "q"}

\* handle_input with this event
T_Input ==
    /\ tui_pc = "idle" /\ ~quit
    /\ \E event \in InputEvents :
         /\ IF event = "Ctrl-C"
            THEN /\ ctrl_c_count' = ctrl_c_count + 1
                 /\ quit' = (all_complete \/ ctrl_c_count + 1 >= 2)
            ELSE IF event = "q" /\ all_complete
            THEN /\ quit' = TRUE
                 /\ UNCHANGED ctrl_c_count
            ELSE /\ ctrl_c_count' = IF event \in Resets \cup {"q"} THEN 0 ELSE ctrl_c_count
                 /\ UNCHANGED quit
         /\ last_input' = IF event = "Ctrl-C" THEN "Ctrl-C"
                          ELSE IF event \in Handled THEN "other"
                          ELSE last_input
    /\ UNCHANGED << lock, tui_pc, all_complete >>
    /\ tuiFrame

Tui == T_RenderLock \/ T_RenderList \/ T_RenderOutput \/ T_CheckLock \/ T_Check \/ T_Input

\* one host that no key file and no agent can authenticate
InitLock ==
    /\ selected_servers = << "nixa:10.0.0.1" >>
    /\ command = None /\ run_after = FALSE /\ use_boot = FALSE
    /\ key_files = {} /\ agent = None
    /\ reachable \in [Tasks -> BOOLEAN]
    /\ Started

NextLock ==
    \/ \E i \in Tasks : Pipeline(i)
    \/ Monitor
    \/ DropSender
    \/ Tui
    \/ join_all

\* pipelines, the aggregator statement by statement, and the readers
SpecLock == InitLock /\ [][NextLock]_vars

\* The runtime keeps running the aggregator: a statement of it that stays
\* possible is taken, and a reader that holds the lock goes on to release
\* it.  The interface leaves the lock free on every pass of its loop (it
\* waits in event::poll between two reads), so the aggregator waiting in
\* lock() gets the lock at one of them.
FairLock ==
    /\ InitLock /\ [][NextLock]_vars
    /\ WF_vars(M_Recv \/ M_Phase \/ M_Line \/ M_Unlock \/ M_Closed)
    /\ SF_vars(M_Lock)
    /\ WF_vars(T_RenderList \/ T_RenderOutput \/ T_Check)

\* one host, or two tokens naming one host of which the second cannot be
\* reached, that no key file and no agent can authenticate
InitTui ==
    /\ selected_servers \in { << "nixa:10.0.0.1" >>, << "nixa:10.0.0.1", "nixa:10.0.0.3" >> }
    /\ command = None /\ run_after = FALSE /\ use_boot = FALSE
    /\ key_files = {} /\ agent = None
    /\ reachable \in [Tasks -> BOOLEAN]
    /\ \A i \in Tasks : reachable[i] => i = 1
    /\ Started

NextTui ==
    \/ \E i \in Tasks : Pipeline(i)
    \/ progress_monitor_task
    \/ T_CheckLock \/ T_Check
    \/ T_Input
    \/ join_all

\* pipelines, the aggregator, and the interface checking and taking input
SpecTui == InitTui /\ [][NextTui]_vars

(***************************************************************************)
(* Vocabulary of the properties.                                           *)
(***************************************************************************)
Range(seq) == { seq[k] : k \in 1..Len(seq) }
Last(seq) == seq[Len(seq)]
EndsWith(s, suffix) ==
    Len(suffix) <= Len(s) /\ SubSeq(s, Len(s) - Len(suffix) + 1, Len(s)) = suffix

\* the names of the phases task i has sent, in order
Names(i) == [k \in 1..Len(emitted[i]) |-> emitted[i][k].name]
Sends(i, name) == \E k \in 1..Len(emitted[i]) : emitted[i][k].name = name

\* the place of a phase in the pipeline
Rank(name) ==
    CASE name = "Pending" -> 0
      [] name = "Connecting" -> 1
      [] name = "RunningBeforeCommand" -> 2
      [] name = "CheckingGit" -> 3
      [] name = "PullingGit" -> 4
      [] name = "Rebuilding" -> 5
      [] name = "RunningAfterCommand" -> 6
      [] name = "Success" -> 7
      [] name = "Failed" -> 8

\* the phase during which the command of a step runs
PhaseOf(step) ==
    CASE step = "before" -> "RunningBeforeCommand"
      [] step = "check" -> "CheckingGit"
      [] step = "pull" -> "PullingGit"
      [] step = "rebuild" -> "Rebuilding"
      [] step = "after" -> "RunningAfterCommand"

\* the commands of a step that task i has started, and those that have ended
Ran(i, step) == \E k \in 1..Len(executed[i]) : executed[i][k].step = step
Runs(i, step) == Cardinality({ k \in 1..Len(executed[i]) : executed[i][k].step = step })
Ended(i, step) == { f \in Range(finished[i]) : f.step = step }

\* the task of token i has completed with the tuple its pipeline returned
Returned(i) == IsSome(task_out[i]) /\ IsOk(Unwrap(task_out[i]))
Result(i) == Unwrap(task_out[i])[2]
FailedWithCode(i, exit_status) ==
    /\ emitted[i] # << >>
    /\ Last(emitted[i]).name = "Failed"
    /\ Contains(Last(emitted[i]).reason, ToString(exit_status))

\* the section a command leaves in the transcript
Section(cmd, buf) == "$ " \o cmd \o "\n" \o buf \o "\n"

\* C1: the phases a host's pipeline emits are in the order Connecting,
\* RunningBeforeCommand, CheckingGit, PullingGit, Rebuilding,
\* RunningAfterCommand, Success, never an earlier one after a later one; Failed
\* only follows a non-terminal phase and nothing follows a terminal phase; and
\* at most one command is awaiting its exit status, started in its own phase.
C1_PhaseOrder ==
    \A i \in Tasks :
        /\ \A k \in 1..(Len(emitted[i]) - 1) :
              /\ ~is_terminal(emitted[i][k])
              /\ Rank(emitted[i][k].name) < Rank(emitted[i][k + 1].name)
        /\ emitted[i] # << >> => emitted[i][1].name = "Connecting"
        /\ Len(running[i]) <= 1
        /\ running[i] # << >> => Last(Names(i)) = PhaseOf(running[i][1])

C1_Witness ==
    \E i \in Tasks :
        /\ Names(i) = << "Connecting", "RunningBeforeCommand", "CheckingGit",
                         "PullingGit", "Rebuilding", "Success" >>
        /\ Len(finished[i]) = 4
        /\ running[i] = << >>

\* C2: when the before-command exits non-zero the host never reaches
\* CheckingGit, PullingGit or Rebuilding, none of the check, pull and rebuild
\* commands is executed, the result has success=false and its transcript is
\* the before-command's section alone.
C2_BeforeFailureAborts ==
    \A i \in Tasks : \A f \in Ended(i, "before") :
        f.exit_status # 0 =>
            /\ ~Sends(i, "CheckingGit") /\ ~Sends(i, "PullingGit") /\ ~Sends(i, "Rebuilding")
            /\ \A k \in 1..Len(executed[i]) : executed[i][k].step = "before"
            /\ Returned(i)
            /\ Result(i).success = FALSE
            /\ Result(i).output =
                  "=== Running before-command ===\n" \o Section(Unwrap(command), f.buf)
                  \o "Before-command failed with exit code: " \o ToString(f.exit_status)
                  \o "\n"

C2_Witness ==
    /\ IsSome(results)
    /\ \E i \in Tasks : \E f \in Ended(i, "before") : f.exit_status # 0

\* C3: when the rebuild exits non-zero the host's last phase is Failed with a
\* reason naming the exit code, the result has success=false, neither
\* RunningAfterCommand nor Success is emitted and the after-command is never
\* executed.
C3_RebuildFailureStops ==
    \A i \in Tasks : \A f \in Ended(i, "rebuild") :
        f.exit_status # 0 =>
            /\ FailedWithCode(i, f.exit_status)
            /\ Returned(i)
            /\ Result(i).success = FALSE
            /\ ~Sends(i, "RunningAfterCommand") /\ ~Sends(i, "Success")
            /\ ~Ran(i, "after")

C3_Witness ==
    /\ IsSome(results)
    /\ run_after /\ IsSome(command)
    /\ \E i \in Tasks : \E f \in Ended(i, "rebuild") : f.exit_status # 0

\* C4: when the rebuild exits zero and the after-command exits non-zero the
\* result has success=false and the phase is Failed; the transcript ends with
\* the rebuild's section (command and output, no failure message) followed by
\* the after-command's failure; the rebuild has run once and nothing runs
\* after the after-command.
C4_AfterFailureKeepsRebuild ==
    \A i \in Tasks : \A r \in Ended(i, "rebuild") : \A a \in Ended(i, "after") :
        (r.exit_status = 0 /\ a.exit_status # 0) =>
            /\ Returned(i)
            /\ Result(i).success = FALSE
            /\ FailedWithCode(i, a.exit_status)
            /\ EndsWith(Result(i).output,
                        Section(rebuild_cmd(i), r.buf)
                        \o "=== Running after-command ===\n"
                        \o Section(Unwrap(command), a.buf)
                        \o "After-command failed with exit code: "
                        \o ToString(a.exit_status) \o "\n")
            /\ ~Contains(Result(i).output, "nixos-rebuild failed")
            /\ Runs(i, "rebuild") = 1
            /\ Last(executed[i]).step = "after"

C4_Witness ==
    /\ IsSome(results)
    /\ \E i \in Tasks : \E r \in Ended(i, "rebuild") : \E a \in Ended(i, "after") :
          r.exit_status = 0 /\ r.buf # "" /\ a.exit_status # 0

\* C5: when the repository check reports that there is no git repository the
\* host's last phase is Failed with reason "No git repository found in
\* /etc/nixos", the result has success=false, and neither git pull nor the
\* rebuild nor the after-command is executed.
C5_NoRepositoryStops ==
    \A i \in Tasks : \A f \in Ended(i, "check") :
        Contains(f.buf, "No git repo found") =>
            /\ Last(emitted[i]) = Failed("No git repository found in /etc/nixos")
            /\ Returned(i)
            /\ Result(i).success = FALSE
            /\ ~Ran(i, "pull") /\ ~Ran(i, "rebuild") /\ ~Ran(i, "after")

C5_Witness ==
    /\ IsSome(results)
    /\ run_after /\ IsSome(command)
    /\ \E i \in Tasks : \E f \in Ended(i, "check") : Contains(f.buf, "No git repo found")

\* C6: when git pull exits non-zero the host's last phase is Failed with a
\* reason naming the exit code, the result has success=false and a transcript
\* that holds the pull command with all the output captured from it and the
\* section of the before-command if one ran, and the rebuild is never started.
C6_PullFailureKeepsTranscript ==
    \A i \in Tasks : \A f \in Ended(i, "pull") :
        f.exit_status # 0 =>
            /\ FailedWithCode(i, f.exit_status)
            /\ Returned(i)
            /\ Result(i).success = FALSE
            /\ Contains(Result(i).output, Section(GitPullCmd, f.buf))
            /\ \A b \in Ended(i, "before") :
                  Contains(Result(i).output, Section(Unwrap(command), b.buf))
            /\ ~Ran(i, "rebuild")
            /\ ~Sends(i, "Rebuilding")

C6_Witness ==
    /\ IsSome(results)
    /\ \E i \in Tasks : \E f \in Ended(i, "pull") :
          f.exit_status # 0 /\ f.buf # "" /\ Ran(i, "before")

\* the steps the options require of a pipeline
Required ==
    { "check", "pull", "rebuild" }
        \cup (IF BeforeConfigured THEN { "before" } ELSE { })
        \cup (IF run_after /\ IsSome(command) THEN { "after" } ELSE { })

\* task i has emitted Success or returned success=true
Succeeded(i) == Sends(i, "Success") \/ (Returned(i) /\ Result(i).success)

\* C7 as stated: Success is emitted, and success=true returned, only if every
\* required step (before-command, repository check, sync, rebuild,
\* after-command) completed with zero exit status; and success=true is
\* returned only on the path that emits Success.
C7_SuccessOnlyIfAllExitZero ==
    \A i \in Tasks :
        /\ Succeeded(i) =>
              /\ \A step \in Required : Ended(i, step) # { }
              /\ \A f \in Range(finished[i]) : f.exit_status = 0
        /\ (Returned(i) /\ Result(i).success) => Sends(i, "Success")

\* C7: Success is emitted, and success=true returned, only if every required
\* step completed, the before-command, sync, rebuild and after-command with
\* zero exit status and the repository check without reporting a missing
\* repository (its exit status is not looked at); and success=true is returned
\* only on the path that emits Success.
C7_SuccessOnlyIfEveryStepPassed ==
    \A i \in Tasks :
        /\ Succeeded(i) =>
              /\ \A step \in Required : Ended(i, step) # { }
              /\ \A f \in Range(finished[i]) :
                    IF f.step = "check"
                    THEN ~Contains(f.buf, "No git repo found")
                    ELSE f.exit_status = 0
        /\ (Returned(i) /\ Result(i).success) => Sends(i, "Success")

C7_Witness ==
    /\ IsSome(results)
    /\ \E i \in Tasks :
          /\ Returned(i) /\ Result(i).success
          /\ Sends(i, "Success")
          /\ Ran(i, "after")
          /\ \E f \in Ended(i, "check") : f.exit_status # 0

\* C8: the auxiliary command is executed at most once per host: as the first
\* command, before the repository check, exactly when a command is configured
\* and run_after is false; as the last command, after the rebuild, exactly
\* when a command is configured, run_after is true and the check, the sync and
\* the rebuild have passed; never both.
C8_AuxiliaryAtMostOnce ==
    \A i \in Tasks :
        /\ Runs(i, "before") + Runs(i, "after") <= 1
        /\ \A k \in 1..Len(executed[i]) :
              executed[i][k].step \in { "before", "after" }
                  => executed[i][k].cmd = Unwrap(command)
        /\ Ran(i, "before") => BeforeConfigured /\ executed[i][1].step = "before"
        /\ (BeforeConfigured /\ executed[i] # << >>) => executed[i][1].step = "before"
        /\ Ran(i, "after") =>
              /\ run_after /\ IsSome(command)
              /\ Last(executed[i]).step = "after"
              /\ \E f \in Ended(i, "check") : ~Contains(f.buf, "No git repo found")
              /\ \E f \in Ended(i, "pull") : f.exit_status = 0
              /\ \E f \in Ended(i, "rebuild") : f.exit_status = 0
        /\ ( /\ run_after /\ IsSome(command)
             /\ Returned(i)
             /\ \E f \in Ended(i, "rebuild") : f.exit_status = 0 )
              => (Ran(i, "after") \/ Result(i).output = "Error: " \o ChannelError)

C8_Witness ==
    /\ IsSome(results)
    /\ \E i \in Tasks : Ended(i, "after") # { } /\ Len(executed[i]) = 4

\* C9: once the table holds a terminal phase for a host, no event applied
\* later changes that host's phase.
C9_TerminalIsFinal ==
    [][\A h \in DOMAIN progress_map :
          is_terminal(progress_map[h].phase)
              => progress_map'[h].phase = progress_map[h].phase]_vars

\* C10: when the fleet run completes there is exactly one result per host
\* token of the selection, in the place of its token, whichever step failed:
\* every task has yielded one value, and the result carries the token's host
\* name, the token itself, or "Unknown" for a task that did not complete.
C10_OneResultPerToken ==
    /\ \A i \in Tasks : produced[i] <= 1
    /\ IsSome(results) =>
          /\ Len(Unwrap(results)) = Len(selected_servers)
          /\ \A i \in Tasks :
                /\ produced[i] = 1
                /\ Unwrap(results)[i].hostname
                      \in { KeyOf(selected_servers[i]), selected_servers[i], "Unknown" }

C10_Witness ==
    /\ IsSome(results)
    /\ Len(selected_servers) = 2
    /\ \E i, j \in Tasks :
          /\ Unwrap(results)[i].hostname = "Unknown"
          /\ \E f \in Ended(j, "rebuild") : f.exit_status # 0

\* the pipeline of token k has given up at authentication
AuthFailed(k) ==
    /\ emitted[k] # << >>
    /\ Last(emitted[k]) = Failed("SSH authentication failed")

\* task i has yielded its value
Completed(i) == pc[i] \in { "returned", "panicked" }

\* C11: while pipelines run concurrently and the pipeline of host k has failed
\* at authentication, every other pipeline that has not completed can take
\* its next step, and from then on the run leads to every task having yielded
\* one value and the result list holding a result for every host.
C11_AuthFailureIsolated ==
    /\ [](\A k \in Tasks : \A j \in Tasks :
            (AuthFailed(k) /\ j # k /\ ~Completed(j)) => ENABLED Pipeline(j))
    /\ (\E k \in Tasks : AuthFailed(k))
          ~> ( /\ IsSome(results)
               /\ Len(Unwrap(results)) = Len(selected_servers)
               /\ \A j \in Tasks : produced[j] = 1 )

C11_Witness ==
    /\ IsSome(results)
    /\ \E k \in Tasks : \E j \in Tasks :
          /\ AuthFailed(k)
          /\ j # k
          /\ Returned(j) /\ Result(j).success
          /\ Unwrap(results)[j].success

\* the pipeline of token i left with an error instead of a result tuple
ReturnedErr(i) == IsSome(returned[i]) /\ ~IsOk(Unwrap(returned[i]))

\* C12: in the result list of a completed run, a pipeline that returned an
\* error has the result (token, false, "Error: " and the error text), a task
\* that failed to join has ("Unknown", false, "Task error: " and the error
\* text), and every other host has the tuple its own pipeline returned.
C12_ErrorsBecomeResults ==
    IsSome(results) =>
        /\ Len(Unwrap(results)) = Len(selected_servers)
        /\ \A i \in Tasks :
              IF pc[i] = "panicked"
              THEN Unwrap(results)[i] = Tuple("Unknown", FALSE, "Task error: task panicked")
              ELSE IF ReturnedErr(i)
              THEN Unwrap(results)[i] =
                      Tuple(selected_servers[i], FALSE, "Error: " \o Unwrap(returned[i])[2])
              ELSE IsSome(returned[i]) /\ Unwrap(results)[i] = Unwrap(returned[i])[2]

C12_Witness ==
    /\ IsSome(results)
    /\ \E i \in Tasks : \E j \in Tasks :
          /\ ReturnedErr(i) /\ Unwrap(returned[i])[2] = ReadError
          /\ pc[j] = "panicked"

\* the pipeline of task i returned a tuple after it had started commands
RanToResult(i) ==
    IsSome(returned[i]) /\ IsOk(Unwrap(returned[i])) /\ executed[i] # << >>

\* the first event of task i, and whether the channel took it
Announcement(i) ==
    ProgressUpdate(hostname(i), Connecting, Some("Connecting to " \o ip(i) \o "..."))
Delivered(i) == \E k \in 1..Len(chan) : chan[k] = Announcement(i)

\* C13: a pipeline that has not completed always has a next step, whatever
\* the state of the progress channel, a full channel included; and two
\* pipelines that ran the same commands with the same outputs and exit
\* statuses return the same success flag and transcript, whichever of their
\* progress events were dropped.
C13_NeverBlocksSameResult ==
    /\ \A i \in Tasks : ~Completed(i) => ENABLED Pipeline(i)
    /\ \A i \in Tasks : \A j \in Tasks :
          ( /\ RanToResult(i) /\ RanToResult(j)
            /\ executed[i] = executed[j] /\ finished[i] = finished[j] )
             => /\ Result(i).success = Result(j).success
                /\ Result(i).output = Result(j).output

\* the channel is full, it took the first event of task 1 and dropped that
\* of task 2, and both pipelines went through to the same result
C13_Witness ==
    /\ Len(selected_servers) = 2
    /\ Len(chan) = ChanCap
    /\ \A i \in Tasks : Len(parts(i)) = 2
    /\ ip(1) # ip(2)
    /\ Delivered(1) /\ ~Delivered(2)
    /\ RanToResult(1) /\ RanToResult(2)
    /\ executed[1] = executed[2] /\ finished[1] = finished[2]
    /\ Result(1).success /\ Result(2).success

\* C14: the events the aggregator has applied for a pipeline are events that
\* pipeline sent, in the order it sent them: each applied event is the event
\* at its place in the sequence sent, and the places strictly increase.  The
\* events still in the channel come after every applied event of their task.
C14_PerHostFifo ==
    /\ \A i \in Tasks :
          /\ \A n \in 1..Len(applied[i]) :
                /\ applied[i][n].k \in 1..Len(sent[i])
                /\ applied[i][n].update = sent[i][applied[i][n].k]
          /\ \A n \in 1..Len(applied[i]) : \A m \in 1..Len(applied[i]) :
                n < m => applied[i][n].k < applied[i][m].k
    /\ \A q \in 1..Len(queued) :
          /\ chan[q] = sent[queued[q].task][queued[q].k]
          /\ \A n \in 1..Len(applied[queued[q].task]) :
                applied[queued[q].task][n].k < queued[q].k

\* events of one pipeline were applied around one that was dropped, while
\* the channel held two events at once
C14_Witness ==
    /\ Len(chan) = 2
    /\ \E i \in Tasks :
          /\ Len(applied[i]) >= 2
          /\ \E n \in 1..(Len(applied[i]) - 1) : applied[i][n + 1].k > applied[i][n].k + 1
          /\ queued[1].task = i /\ queued[2].task = i

\* resolving, connecting or the handshake failed for the host of task i
ConnectFailed(i) ==
    ReturnedErr(i) /\ executed[i] = << >> /\ Unwrap(returned[i])[2] \in ConnectErrors(i)

\* C15: a host whose address resolution, TCP connect or SSH handshake failed
\* ends in the Failed phase carrying the underlying error (and its pipeline
\* makes no second connection attempt: it has returned).
C15_ConnectFailureEndsFailed ==
    \A i \in Tasks :
        ConnectFailed(i) =>
            /\ pc[i] = "returned"
            /\ emitted[i] # << >>
            /\ Last(emitted[i]) = Failed(Unwrap(returned[i])[2])

\* C16: when the result of a host has been produced, the host's pipeline has
\* emitted a terminal phase, Success or Failed: no result exists while the
\* last phase emitted for the host is non-terminal.
C16_ResultAfterTerminal ==
    \A i \in Tasks :
        Returned(i) => emitted[i] # << >> /\ is_terminal(Last(emitted[i]))

\* authenticate_ssh_session is at its end with no strategy having succeeded
EveryStrategyFailed(i) == pc[i] = "auth_end" /\ ~authenticated[i]
AuthFailedResult(i) == Ok(Tuple(hostname(i), FALSE, "SSH authentication failed"))

\* C17: when every authentication strategy has failed, the next step of the
\* pipeline emits Failed{"SSH authentication failed"} and returns success=false
\* with the transcript "SSH authentication failed".  A pipeline whose last phase
\* is that failure has returned exactly this result, has started no remote
\* command and takes no further step, and the pipelines of the other hosts
\* keep their next steps.
C17_AuthFailureStopsHost ==
    /\ [][\A i \in Tasks :
            (EveryStrategyFailed(i) /\ pc'[i] # pc[i]) =>
                /\ AuthFailed(i)'
                /\ returned'[i] = Some(AuthFailedResult(i))
                /\ executed'[i] = << >>]_vars
    /\ [](\A i \in Tasks :
            AuthFailed(i) =>
                /\ pc[i] = "returned"
                /\ returned[i] = Some(AuthFailedResult(i))
                /\ task_out[i] = Some(AuthFailedResult(i))
                /\ executed[i] = << >>
                /\ ~ENABLED Pipeline(i)
                /\ \A j \in Tasks : (j # i /\ ~Completed(j)) => ENABLED Pipeline(j))

\* one host failed authentication and another went through to success
C17_Witness ==
    \E i \in Tasks : \E j \in Tasks :
        /\ AuthFailed(i) /\ Returned(i) /\ ~Result(i).success
        /\ j # i /\ Returned(j) /\ Result(j).success

\* where a pipeline is while authenticate_ssh_session runs
AuthPcs ==
    { "auth", "auth_key", "auth_agent", "auth_agent_try", "auth_manual",
      "auth_list", "auth_ident", "auth_ident_try", "auth_end" }

\* the order of the strategies: the four key files, the agent, its identities
ConventionalKeys == << "id_ed25519", "id_rsa", "id_ecdsa", "id_dsa" >>
StrategyRank(a) ==
    CASE a.strategy = "key" ->
            CHOOSE k \in 1..4 : a.id = home \o "/.ssh/" \o ConventionalKeys[k]
      [] a.strategy = "agent" -> 5
      [] a.strategy = "identity" ->
            5 + (CHOOSE k \in 1..(MaxIdentities + 1) : a.id = AgentComment(k))

Tried(i, strategy, id) ==
    \E n \in 1..Len(attempts[i]) :
        attempts[i][n].strategy = strategy /\ attempts[i][n].id = id
Announced(i, line) ==
    \E n \in 1..Len(sent[i]) : sent[i][n].output_line = Some(line)

\* C18: the authentication attempts of a host are made in the order key
\* files ed25519, rsa, ecdsa, dsa, then the agent, then the agent's identities
\* one by one; only the last attempt can be a success, and after it no other
\* attempt is made; the procedure returns true exactly when its last attempt
\* succeeded; and when it returns false the three strategies were announced,
\* every key file that exists, the agent and every identity the agent listed
\* were tried.
C18_StrategyOrder ==
    /\ [](\A i \in Tasks :
            /\ \A n \in 1..Len(attempts[i]) : \A m \in 1..Len(attempts[i]) :
                  n < m => /\ StrategyRank(attempts[i][n]) < StrategyRank(attempts[i][m])
                           /\ ~attempts[i][n].ok
            /\ (pc[i] \in AuthPcs /\ attempts[i] # << >> /\ Last(attempts[i]).ok)
                  => pc[i] = "auth_end" /\ authenticated[i])
    /\ [][\A i \in Tasks :
            (pc[i] \in AuthPcs /\ pc'[i] \notin AuthPcs) =>
                IF attempts[i]' # << >> /\ Last(attempts[i]').ok
                THEN pc'[i] = AfterAuthenticated
                ELSE /\ pc'[i] = "returned"
                     /\ AuthFailed(i)'
                     /\ Announced(i, "Trying file-based SSH keys...")
                     /\ Announced(i, "Trying SSH agent authentication...")
                     /\ Announced(i, "Trying manual agent key iteration...")
                     /\ \A path \in key_files : Tried(i, "key", path)
                     /\ Tried(i, "agent", "")
                     /\ \A k \in 1..Len(identities[i]) :
                           Tried(i, "identity", identities[i][k])]_vars

\* authentication failed after two key files, the agent and an identity of
\* the agent had been tried
C18_Witness ==
    \E i \in Tasks :
        /\ AuthFailed(i)
        /\ Cardinality({ n \in 1..Len(attempts[i]) : attempts[i][n].strategy = "key" }) >= 2
        /\ Tried(i, "agent", "")
        /\ \E n \in 1..Len(attempts[i]) : attempts[i][n].strategy = "identity"

\* the token of task i has no ':'
NoColon(i) == ~Contains(selected_servers[i], ":")
InvalidResult(i) == Tuple(selected_servers[i], FALSE, "Invalid server info format")

\* C19: for a token without ':' the pipeline's first step returns the result
\* (token, false, "Invalid server info format"): no event is sent, no
\* connection, authentication attempt or remote command is made for it; the
\* pipelines of the other hosts keep their next steps and the final list
\* holds this result at the token's place beside the results of the others.
C19_InvalidTokenFailsAlone ==
    \A i \in Tasks :
        NoColon(i) =>
            /\ pc[i] \in { "spawned", "returned", "panicked" }
            /\ sent[i] = << >> /\ emitted[i] = << >>
            /\ attempts[i] = << >> /\ executed[i] = << >>
            /\ pc[i] = "returned" =>
                  /\ returned[i] = Some(Ok(InvalidResult(i)))
                  /\ task_out[i] = Some(Ok(InvalidResult(i)))
            /\ \A j \in Tasks : (j # i /\ ~Completed(j)) => ENABLED Pipeline(j)
            /\ (IsSome(results) /\ pc[i] = "returned") =>
                  /\ Len(Unwrap(results)) = Len(selected_servers)
                  /\ Unwrap(results)[i] = InvalidResult(i)
                  /\ \A j \in Tasks : Returned(j) => Unwrap(results)[j] = Result(j)

\* the run ended with the invalid token failed and another host updated
C19_Witness ==
    /\ IsSome(results)
    /\ \E i \in Tasks : \E j \in Tasks :
          /\ NoColon(i) /\ Unwrap(results)[i] = InvalidResult(i)
          /\ j # i /\ Returned(j) /\ Result(j).success /\ Unwrap(results)[j].success

\* C20: a step of progress_monitor_task takes the oldest event; if the event
\* names a host of the table, that host's phase becomes the event's phase and
\* its output grows by the event's line and a newline, or stays as it is when
\* the event has no line, and the records of the other hosts stay as they
\* are; if the event names no host of the table, the table stays as it is.
\* The key set of the table never changes.
C20_ApplyFrame ==
    [][ /\ DOMAIN progress_map' = DOMAIN progress_map
        /\ chan # << >> =>
             LET update == Head(chan)
                 h == update.hostname
             IN IF h \in DOMAIN progress_map
                THEN /\ progress_map'[h].phase = update.phase
                     /\ progress_map'[h].full_output =
                           IF IsSome(update.output_line)
                           THEN progress_map[h].full_output
                                   \o Unwrap(update.output_line) \o "\n"
                           ELSE progress_map[h].full_output
                     /\ \A g \in DOMAIN progress_map \ {h} :
                           progress_map'[g] = progress_map[g]
                ELSE progress_map' = progress_map ]_vars

\* an event with a line was applied to a host, then an event naming a host
\* without an entry, which left the table as the first event made it
C20_Witness ==
    /\ chan = << >>
    /\ Len(applied[1]) = 2
    /\ LET first == applied[1][1].update
           second == applied[1][2].update
       IN /\ first.hostname = "nixa" /\ IsSome(first.output_line)
          /\ second.hostname \notin DOMAIN progress_map
          /\ progress_map["nixa"].phase = first.phase
          /\ progress_map["nixa"].full_output = Unwrap(first.output_line) \o "\n"

\* the host names of the selection
SelectedHosts == { KeyOf(selected_servers[k]) : k \in 1..Len(selected_servers) }

\* C21: when the run starts the table holds one entry for every selected
\* host and no other, each in phase Pending with empty output; the key set
\* stays that way, and the phase or output of an entry changes only in a step
\* of progress_monitor_task that takes an event naming that host from the
\* channel.
C21_CreatedPendingChangedByEvents ==
    /\ \A h \in DOMAIN progress_map :
          progress_map[h] = [phase |-> [name |-> "Pending"], full_output |-> ""]
    /\ [](DOMAIN progress_map = SelectedHosts)
    /\ [][\A h \in DOMAIN progress_map :
            progress_map'[h] # progress_map[h] =>
                /\ chan # << >>
                /\ Head(chan).hostname = h
                /\ chan' = Tail(chan)
                /\ Len(applied'[Head(queued).task]) = Len(applied[Head(queued).task]) + 1]_vars

\* an entry has left Pending and gathered output through applied events
C21_Witness ==
    \E h \in DOMAIN progress_map : \E i \in Tasks :
        /\ progress_map[h].phase.name # "Pending"
        /\ progress_map[h].full_output # ""
        /\ applied[i] # << >>
        /\ Last(applied[i]).update.hostname = h
        /\ Last(applied[i]).update.phase = progress_map[h].phase

(***************************************************************************)
(* Vocabulary of the properties of execute_command_streaming.              *)
(***************************************************************************)
\* the output_line values task i has sent, in order
Lines(i) == [k \in 1..Len(sent[i]) |-> Unwrap(sent[i][k].output_line)]

\* the read loop of task i has ended and the rest of the buffer was handled
Drained(i) == pc[i] \in {"wait_close", "streamed"}

\* the lines of a content that arrives in one read
ReadWhole(rebuild, content) ==
    LET cut == process_lines(display_chunk(rebuild, content))
    IN cut.lines \o flush(cut.rest)

\* C22: however the content was split into reads, the lines sent are
\* those sent when the same content arrives in one read.
C22_ChunkBoundaryIndependence ==
    \A i \in Tasks :
        Drained(i) => Lines(i) = ReadWhole(is_rebuild(i), stream_output[i])

\* C23: no line sent carries a carriage return with text behind it: what
\* stood before a carriage return inside a line is never sent.
C23_OverwrittenTextNeverSent ==
    \A i \in Tasks : \A k \in 1..Len(sent[i]) : ~Contains(Lines(i)[k], "\r")

\* C24 as stated: the results stand in the order in which the tasks
\* completed.
C24_CompletionOrder ==
    IsSome(results) =>
        \A k \in 1..Len(completed) :
            Unwrap(results)[k] = unwrap_or_else(Unwrap(task_out[completed[k]]))

\* C24: the fleet run returns one result for each token selected, in the
\* order of the selection, whatever the order in which the tasks completed.
C24_SelectionOrder ==
    IsSome(results) =>
        /\ Len(Unwrap(results)) = Len(selected_servers)
        /\ \A k \in Tasks :
              Unwrap(results)[k] = unwrap_or_else(Unwrap(task_out[k]))

\* the second task completed first, with another result than the first's
C24_Witness ==
    /\ IsSome(results)
    /\ completed = << 2, 1 >>
    /\ Unwrap(task_out[1]) # Unwrap(task_out[2])
    /\ Unwrap(results)[1] = unwrap_or_else(Unwrap(task_out[1]))

\* the phase that announces each step
StepPhase ==
    [before |-> "RunningBeforeCommand", check |-> "CheckingGit",
     pull |-> "PullingGit", rebuild |-> "Rebuilding",
     after |-> "RunningAfterCommand"]

\* the step whose remote command the pipeline is about to start
Starting(i) ==
    IF pc[i] = "before_exec" THEN << "before" >>
    ELSE IF pc[i] = "check_exec" THEN << "check" >>
    ELSE IF pc[i] = "pull_exec" THEN << "pull" >>
    ELSE IF pc[i] = "rebuild_exec" THEN << "rebuild" >>
    ELSE IF pc[i] = "after_exec" THEN << "after" >>
    ELSE << >>

\* C25: when a step's work is about to begin or is going on (the
\* connection attempt and the authentication for connect, the remote
\* command for the other steps), the last phase sent is that step's phase.
C25_PhaseAnnouncedBeforeWork ==
    \A i \in Tasks :
        /\ pc[i] \in {"connect"} \cup AuthPcs =>
              emitted[i] # << >> /\ Last(emitted[i]).name = "Connecting"
        /\ \A k \in 1..Len(Starting(i) \o running[i]) :
              /\ emitted[i] # << >>
              /\ Last(emitted[i]).name = StepPhase[(Starting(i) \o running[i])[k]]

\* the rebuild is running after its lines began to arrive, and the check
\* and the pull were announced and run before it
C25_Witness ==
    \E i \in Tasks :
        /\ running[i] = << "rebuild" >>
        /\ lines_read[i] > 0
        /\ Last(emitted[i]).name = "Rebuilding"
        /\ Len(executed[i]) >= 3
        /\ Names(i)[Len(emitted[i]) - 1] = "PullingGit"

\* the bytes the step's read took in ("" when the step is no read)
Chunk(i) == SubSeq(stream_output'[i], Len(stream_output[i]) + 1, Len(stream_output'[i]))

\* the events task i sends in the step
NewUpdates(i) == SubSeq(sent'[i], Len(sent[i]) + 1, Len(sent'[i]))

\* the step is a read of task i's command output
IsRead(i) == pc[i] = "stream" /\ stream_output'[i] # stream_output[i]

\* the lines a buffer holds in full: what stands before each line feed
CompletedLines(buffer) ==
    LET segments == Split(buffer, "\n")
    IN SubSeq(segments, 1, Len(segments) - 1)

Blank(s) == \A k \in 1..Len(s) : SubSeq(s, k, k) \in {" ", "\r", "\n"}
NonBlank(s) == ~Blank(s)

\* t is s without the white space at its two ends
IsTrimOf(t, s) ==
    /\ t # ""
    /\ ~Blank(SubSeq(t, 1, 1)) /\ ~Blank(SubSeq(t, Len(t), Len(t)))
    /\ \E a \in 0..Len(s) :
          /\ SubSeq(s, a + 1, a + Len(t)) = t
          /\ Blank(SubSeq(s, 1, a))
          /\ Blank(SubSeq(s, a + Len(t) + 1, Len(s)))

\* the phase of the event of a line
PhaseOfLine(rebuild, line) ==
    IF ~rebuild THEN [name |-> "PullingGit"]
    ELSE IF IsSome(parse_rebuild_progress(line))
    THEN [name |-> "Rebuilding", progress |-> Unwrap(parse_rebuild_progress(line))]
    ELSE [name |-> "Rebuilding", progress |-> ""]

\* C26: a read sends one event for each line it completes that is not
\* blank, in order; the event carries the trimmed line, and its phase is
\* Rebuilding with the detail of the line (empty when the line has none)
\* for the rebuild and PullingGit for any other command.
C26_OneEventPerCompletedLine ==
    [][\A i \in Tasks :
          IsRead(i) =>
             LET buffer == line_buffer[i] \o
                              (IF is_rebuild(i) THEN strip(Chunk(i)) ELSE Chunk(i))
                 lines == SelectSeq(CompletedLines(buffer), NonBlank)
             IN /\ Len(NewUpdates(i)) = Len(lines)
                /\ \A k \in 1..Len(lines) :
                      /\ NewUpdates(i)[k].hostname = hostname(i)
                      /\ IsSome(NewUpdates(i)[k].output_line)
                      /\ IsTrimOf(Unwrap(NewUpdates(i)[k].output_line), lines[k])
                      /\ NewUpdates(i)[k].phase =
                            PhaseOfLine(is_rebuild(i), Unwrap(NewUpdates(i)[k].output_line))]_vars

\* the rebuild printed a line with a detail and a line without
C26_Witness ==
    \E i \in Tasks :
        /\ pc[i] = "stream"
        /\ is_rebuild(i)
        /\ Len(sent[i]) = 2
        /\ sent[i][1] = ProgressUpdate(hostname(i),
                            [name |-> "Rebuilding", progress |-> "reloading services..."],
                            Some("reloading"))
        /\ sent[i][2] = ProgressUpdate(hostname(i),
                            [name |-> "Rebuilding", progress |-> ""], Some("a"))

IsEof(i) == pc[i] = "stream" /\ pc'[i] = "wait_close"

\* s without its white space
RECURSIVE Visible(_)
Visible(s) ==
    IF s = "" THEN ""
    ELSE IF Blank(SubSeq(s, 1, 1)) THEN Visible(SubSeq(s, 2, Len(s)))
    ELSE SubSeq(s, 1, 1) \o Visible(SubSeq(s, 2, Len(s)))

\* the lines of a sequence one after the other
RECURSIVE Flatten(_)
Flatten(lines) ==
    IF lines = << >> THEN "" ELSE Head(lines) \o Flatten(Tail(lines))

\* neither the carriage-return rule nor the escape stripper takes
\* anything from this output
NothingDiscarded(i) ==
    IF is_rebuild(i) THEN ~Contains(stream_output[i], Esc)
    ELSE ~Contains(stream_output[i], "\r")

\* C28: at the end of the stream a buffer that is not blank is sent as
\* one last event with the trimmed buffer as its line, a blank buffer
\* sends nothing; a read of a buffer without carriage return leaves every
\* visible character of the buffer either in a line it sends or in the
\* buffer; and of an output from which neither the carriage-return rule
\* nor the escape stripper takes anything, every visible character has
\* been sent in a line once the stream is drained.
C28_ResidueFlushedOnce ==
    /\ [][\A i \in Tasks :
            IsEof(i) =>
               IF Blank(line_buffer[i]) THEN NewUpdates(i) = << >>
               ELSE /\ Len(NewUpdates(i)) = 1
                    /\ NewUpdates(i)[1].hostname = hostname(i)
                    /\ IsSome(NewUpdates(i)[1].output_line)
                    /\ IsTrimOf(Unwrap(NewUpdates(i)[1].output_line), line_buffer[i])
                    /\ NewUpdates(i)[1].phase =
                          PhaseOfLine(is_rebuild(i), Unwrap(NewUpdates(i)[1].output_line))]_vars
    /\ [][\A i \in Tasks :
            IsRead(i) =>
               LET buffer == line_buffer[i] \o
                                (IF is_rebuild(i) THEN strip(Chunk(i)) ELSE Chunk(i))
                   lines == [k \in 1..Len(NewUpdates(i)) |->
                                Unwrap(NewUpdates(i)[k].output_line)]
               IN ~Contains(buffer, "\r") =>
                     Visible(Flatten(lines) \o line_buffer'[i]) = Visible(buffer)]_vars
    /\ [](\A i \in Tasks :
            (Drained(i) /\ NothingDiscarded(i)) =>
                Visible(Flatten(Lines(i))) = Visible(stream_output[i]))

\* git pull printed a line and then text without a line feed: the text is
\* the last event
C28_Witness ==
    \E i \in Tasks :
        /\ pc[i] = "wait_close"
        /\ ~is_rebuild(i)
        /\ stream_output[i] = "a\n a"
        /\ Len(sent[i]) = 2
        /\ sent[i][2] = ProgressUpdate(hostname(i), [name |-> "PullingGit"], Some("a"))

\* the place of the first rule whose marker the line holds in any case:
\* download, copying, building, activating or activation, updating with
\* bootloader, reloading; 0 when it holds none
RuleOf(line) ==
    LET l == to_lowercase(line)
    IN IF Contains(l, "download") THEN 1
       ELSE IF Contains(l, "copying") THEN 2
       ELSE IF Contains(l, "building") THEN 3
       ELSE IF Contains(l, "activating") \/ Contains(l, "activation") THEN 4
       ELSE IF Contains(l, "updating") /\ Contains(l, "bootloader") THEN 5
       ELSE IF Contains(l, "reloading") THEN 6
       ELSE 0

\* the detail the rules give a line when every marker, "derivation"
\* too, is looked for in any case
DetailInAnyCase(line) ==
    LET rule == RuleOf(line)
        num_str == TakeNumeric(line, FindNumeric(line, 1))
    IN IF rule = 1 THEN Unwrap(parse_rebuild_progress(line))
       ELSE IF rule = 2 THEN "copying paths..."
       ELSE IF rule = 3
       THEN IF Contains(to_lowercase(line), "derivation") /\ num_str # ""
            THEN "building " \o num_str \o " drv"
            ELSE "building..."
       ELSE IF rule = 4 THEN "activating..."
       ELSE IF rule = 5 THEN "updating bootloader..."
       ELSE IF rule = 6 THEN "reloading services..."
       ELSE ""

\* C29: the event of a line of the rebuild carries the detail of the
\* first rule whose marker the line holds in any letter case; a line
\* with "building", "derivation" and a number N carries "building N drv"
\* in any letter case.
C29_DetailInAnyCase ==
    \A i \in Tasks : \A k \in 1..Len(sent[i]) :
        sent[i][k].phase.name = "Rebuilding" =>
            sent[i][k].phase.progress = DetailInAnyCase(Unwrap(sent[i][k].output_line))

\* the step ends a streamed command of task i with an exit status
StreamEnds(i) ==
    /\ Len(finished'[i]) = Len(finished[i]) + 1
    /\ Last(finished'[i]).step \in {"pull", "rebuild"}

\* C30: a pipeline whose read of the command output failed returns the
\* read error, and its task's value and result are a failure carrying that
\* error; a streamed command that ends with an exit status fails its step
\* exactly when the status is not zero, whatever lines it printed: then the
\* pipeline returns a result without success, otherwise it goes on.
C30_ReadErrorOrExitStatusDecides ==
    /\ [](\A i \in Tasks :
            (IsSome(returned[i]) /\ Unwrap(returned[i]) = Err(ReadError)) =>
                /\ task_out[i] =
                      Some(Ok(Tuple(selected_servers[i], FALSE, "Error: " \o ReadError)))
                /\ IsSome(results) =>
                      Unwrap(results)[i] =
                          Tuple(selected_servers[i], FALSE, "Error: " \o ReadError))
    /\ [][\A i \in Tasks :
            StreamEnds(i) =>
               IF Last(finished'[i]).exit_status # 0
               THEN /\ pc'[i] = "returned"
                    /\ IsOk(Unwrap(returned'[i]))
                    /\ ~Unwrap(returned'[i])[2].success
               ELSE /\ pc'[i] \notin {"returned", "panicked"}
                    /\ success'[i] = success[i]
                    /\ returned'[i] = None]_vars

\* the read of the rebuild's output failed and the run returned the
\* host's result
C30_Witness ==
    \E i \in Tasks :
        /\ IsSome(returned[i]) /\ Unwrap(returned[i]) = Err(ReadError)
        /\ Last(executed[i]).step = "rebuild"
        /\ IsSome(results)
        /\ ~Unwrap(results)[i].success

(***************************************************************************)
(* Vocabulary of the properties of the progress map and the interface.     *)
(***************************************************************************)
\* the table after these events were applied to it one after the other
RECURSIVE Replay(_, _)
Replay(map, events) ==
    IF events = << >> THEN map
    ELSE Replay(Apply(map, Head(events).update), Tail(events))

\* the table after the events applied so far for the tasks i..n, each whole
RECURSIVE ReplayFrom(_, _)
ReplayFrom(map, i) ==
    IF i > Len(selected_servers) THEN map
    ELSE ReplayFrom(Replay(map, applied[i]), i + 1)

\* every entry is as whole events left it: none has its phase replaced
\* by an event whose line is still to come
Whole == progress_map = ReplayFrom(create_progress_map(selected_servers), 1)

ReaderPcs == {"render_server_list", "render_output_pane", "check_all_complete"}

\* the step is a read of the table by the interface
ReaderReads == tui_pc \in ReaderPcs /\ tui_pc' # tui_pc

\* C31: only progress_monitor_task changes the table, holding the lock;
\* whenever render or check_all_complete reads the table every entry is
\* as whole events left it; and the interface holds the lock exactly while
\* it is inside render or check_all_complete, never while it waits for
\* input.
C31_AppliedUnderLock ==
    /\ [][progress_map' # progress_map =>
             lock = "monitor" /\ mon_pc \in {"phase", "line"} /\ mon_pc' # mon_pc]_vars
    /\ [][ReaderReads => lock = "tui" /\ Whole]_vars
    /\ [](lock = "tui" <=> tui_pc \in ReaderPcs)
    /\ [][(ctrl_c_count' # ctrl_c_count \/ quit' # quit) => lock # "tui" /\ lock' # "tui"]_vars

\* the interface reads the table while the aggregator waits for the lock
\* with its next event in hand
C31_Witness ==
    /\ lock = "tui"
    /\ tui_pc = "render_output_pane"
    /\ mon_pc = "lock"
    /\ IsSome(mon_update)
    /\ Unwrap(mon_update).update.phase.name = "Failed"
    /\ progress_map["nixa"].phase.name = "Connecting"
    /\ progress_map["nixa"].full_output # ""

\* the step is handle_input returning Ok(true)
Quits == quit' /\ ~quit

\* every host of the table is in a terminal phase
AllTerminal ==
    \A h \in DOMAIN progress_map : progress_map[h].phase.name \in {"Success", "Failed"}

\* C32: handle_input signals quit only on 'q' or Ctrl-C after the last
\* check_all_complete found every host terminal, or on the second of two
\* Ctrl-C presses with no other key press or handled mouse event between
\* them; any other key press or handled mouse event sets the count to
\* zero; and 'q' never quits while some host is in no terminal phase.
C32_QuitOnlyCompleteOrForced ==
    /\ [][Quits =>
            \/ /\ all_complete
               /\ ctrl_c_count' \in {ctrl_c_count, ctrl_c_count + 1}
            \/ /\ ctrl_c_count = 1 /\ ctrl_c_count' = 2
               /\ last_input = "Ctrl-C"]_vars
    /\ [](ctrl_c_count > 0 /\ ~quit => last_input = "Ctrl-C")
    /\ [](last_input = "other" /\ ~quit => ctrl_c_count = 0)
    /\ [][(Quits /\ ctrl_c_count' = ctrl_c_count) => AllTerminal]_vars

\* every task has completed with a result and the channel holds no event
AllProducedAndDrained ==
    /\ \A i \in Tasks : Returned(i)
    /\ chan = << >>

\* C33: once every pipeline has produced its result and the channel has been
\* drained, the entry of every selected host is in a terminal phase, Success
\* or Failed (so check_all_complete finds the run complete): no host is shown
\* as Pending or in an in-progress phase after its result exists.
C33_TerminalOnceResultsExist ==
    AllProducedAndDrained =>
        \A i \in Tasks :
            /\ hostname(i) \in DOMAIN progress_map
            /\ is_terminal(progress_map[hostname(i)].phase)

\* no other selected token has the host name of token i
OwnName(i) == \A j \in Tasks : hostname(j) = hostname(i) => j = i

\* the UpdateResult of task i, once it exists
ResultOf(i) == Unwrap(task_out[i])[2]

\* the phase the table shows for the host of token i
Shown(i) == progress_map[hostname(i)].phase.name

\* C34: the table never contradicts the final result: for a host with a
\* host name of its own whose result exists, a table phase of Success comes
\* with success = true and a table phase of Failed with success = false.
C34_TableAgreesWithResult ==
    \A i \in Tasks :
        OwnName(i) /\ Returned(i) =>
            /\ Shown(i) = "Success" => ResultOf(i).success = TRUE
            /\ Shown(i) = "Failed" => ResultOf(i).success = FALSE

\* a host shown in Success whose result exists and is true
C34_Witness ==
    /\ Len(selected_servers) = 1
    /\ OwnName(1) /\ Returned(1)
    /\ Shown(1) = "Success" /\ ResultOf(1).success = TRUE

\* the numbers of the events one pipeline sends on the runs of InitLock
EventIds == 1..8

\* event k of task 1 is in the channel or in the hands of the aggregator
Enqueued(k) ==
    \/ \E n \in DOMAIN queued : queued[n].task = 1 /\ queued[n].k = k
    \/ IsSome(mon_update) /\ Unwrap(mon_update).task = 1 /\ Unwrap(mon_update).k = k

\* event k of task 1 has been applied to the table
WasApplied(k) ==
    \E n \in DOMAIN applied[1] :
        /\ applied[1][n].k = k
        /\ applied[1][n].update = sent[1][k]

\* C35: every event that try_send enqueued is eventually applied by
\* progress_monitor_task; the task ends only when every sender has been
\* dropped and the channel is empty, with no received event unapplied, and
\* nothing is enqueued after it has ended.
C35_EnqueuedEventuallyApplied ==
    /\ \A k \in EventIds : Enqueued(k) ~> WasApplied(k)
    /\ [](Len(sent[1]) <= 8)
    /\ [][mon_pc' = "done" /\ mon_pc # "done" =>
            senders_dropped /\ chan = << >> /\ mon_update = None]_vars
    /\ [](mon_pc = "done" =>
            chan = << >> /\ mon_update = None /\ \A k \in EventIds : ~Enqueued(k))

\* the aggregator has ended after applying the events of a failed run
C35_Witness ==
    /\ mon_pc = "done"
    /\ Len(applied[1]) >= 3
    /\ \A k \in DOMAIN sent[1] : WasApplied(k)
    /\ progress_map["nixa"].phase.name = "Failed"

\* the pipeline of task i has returned Ok after it ran at least one command
RanToItsEnd(i) ==
    /\ IsSome(returned[i]) /\ IsOk(Unwrap(returned[i]))
    /\ executed[i] # << >>

\* the step at which the progress-reporting pipeline of task i stopped
StoppedAt(i) ==
    IF Unwrap(returned[i])[2].success THEN "end"
    ELSE executed[i][Len(executed[i])].step

\* C36: after authentication update_server and update_server_blocking agree:
\* given the outputs and exit statuses that the commands of the
\* progress-reporting pipeline returned, and the same options, update_server
\* executes the same commands in the same order, stops at the same step and
\* returns the same success flag.
C36_PipelinesAgree ==
    \A i \in Tasks :
        RanToItsEnd(i) =>
            LET main == update_server(i, finished[i])
            IN /\ main.executed = executed[i]
               /\ Len(finished[i]) = Len(executed[i])
               /\ main.stop = StoppedAt(i)
               /\ main.result.success = Unwrap(returned[i])[2].success
               /\ main.result.hostname = Unwrap(returned[i])[2].hostname

\* both pipelines stopped at a rebuild that exited non-zero, after the
\* before-command, the check and the pull
C36_Witness ==
    /\ RanToItsEnd(1)
    /\ Len(executed[1]) = 4
    /\ StoppedAt(1) = "rebuild"
    /\ update_server(1, finished[1]).stop = "rebuild"
    /\ ~update_server(1, finished[1]).result.success
====
